---- MODULE Spec2Model ----
(***************************************************************************)
(* Streaming job handlers of the media toolkit: the download handler       *)
(* (app/downloads/route.ts), the clip handler (app/api/clip/route.ts) and   *)
(* the summarize handler (app/analyzer/page.tsx, GET).  One job is one      *)
(* ReadableStream whose start() callback registers the child-process       *)
(* callbacks; every callback is one action.  Text is modelled as a         *)
(* sequence of one-character strings so that includes(), split(), trim()   *)
(* and the regular expressions of the handlers are computed on characters. *)
(***************************************************************************)
EXTENDS Integers, Sequences, FiniteSets, TLC

\* ------------------------------------------------------------------ bounds
\* lines the tool writes to stdout in one job
MaxLines == 2
\* stdout chunks of one job that end in the middle of a line
MaxSplits == 1
\* clips requested in one clip job
MaxClips == 2
\* chunks a child process writes to its stderr
MaxStderr == 1
\* fractional decimal digits kept of a parsed percentage
FracDigits == 1

\* progress values are integers in units of 10^-FracDigits
Scale == 10 ^ FracDigits
\* the value of parseFloat on a token with no leading number
NaN == -1

\* ------------------------------------------------------- character classes
Digit == {"0", "1", "2", "3", "4", "5", "6", "7", "8", "9"}
Lower == {"a", "b", "c", "d", "e", "f", "g", "h", "i", "j", "k", "l", "m",
          "n", "o", "p", "q", "r", "s", "t", "u", "v", "w", "x", "y", "z"}
Upper == {"A", "B", "C", "D", "E", "F", "G", "H", "I", "J", "K", "L", "M",
          "N", "O", "P", "Q", "R", "S", "T", "U", "V", "W", "X", "Y", "Z"}
\* \w
WordChar == Digit \cup Lower \cup Upper \cup {"_"}
\* \s
WhiteSpace == {" ", "\t", "\n", "\r"}
\* [\d.]
NumChar == Digit \cup {"."}
\* [\d:]
ClockChar == Digit \cup {":"}
DigitVal == ("0" :> 0) @@ ("1" :> 1) @@ ("2" :> 2) @@ ("3" :> 3) @@ ("4" :> 4) @@
            ("5" :> 5) @@ ("6" :> 6) @@ ("7" :> 7) @@ ("8" :> 8) @@ ("9" :> 9)

SetMin(S) == CHOOSE x \in S : \A y \in S : x <= y
SetMax(S) == CHOOSE x \in S : \A y \in S : y <= x

\* ------------------------------------------------------ string primitives
Take(s, n) == SubSeq(s, 1, n)
Drop(s, n) == SubSeq(s, n + 1, Len(s))
StartsWithAt(s, sub, i) ==
  /\ i >= 1
  /\ i + Len(sub) - 1 <= Len(s)
  /\ SubSeq(s, i, i + Len(sub) - 1) = sub
\* String.prototype.indexOf, 1-based, 0 when absent
indexOf(s, sub) ==
  LET hits == {i \in 1..(Len(s) - Len(sub) + 1) : StartsWithAt(s, sub, i)}
  IN  IF hits = {} THEN 0 ELSE SetMin(hits)
\* String.prototype.includes
includes(s, sub) == indexOf(s, sub) # 0
\* first index >= i whose character is outside class C (Len(s)+1 when none):
\* the end of the greedy run C* that starts at i
RunEnd(s, i, C) ==
  LET stops == {j \in i..Len(s) : s[j] \notin C}
  IN  IF stops = {} THEN Len(s) + 1 ELSE SetMin(stops)
\* String.prototype.split with a non-empty separator
RECURSIVE split(_, _)
split(s, sep) ==
  LET i == indexOf(s, sep)
  IN  IF i = 0 THEN <<s>>
      ELSE <<Take(s, i - 1)>> \o split(Drop(s, i + Len(sep) - 1), sep)
\* String.prototype.trim
trim(s) ==
  LET keep == {i \in 1..Len(s) : s[i] \notin WhiteSpace}
  IN  IF keep = {} THEN <<>> ELSE SubSeq(s, SetMin(keep), SetMax(keep))
\* value of a run of decimal digits (parseInt on \d+)
RECURSIVE parseInt(_)
parseInt(d) ==
  IF d = <<>> THEN 0 ELSE parseInt(Take(d, Len(d) - 1)) * 10 + DigitVal[d[Len(d)]]
\* the first FracDigits fractional digits as an integer number of units
RECURSIVE FracUnits(_, _)
FracUnits(d, k) ==
  IF k > FracDigits THEN 0
  ELSE (IF k <= Len(d) THEN DigitVal[d[k]] ELSE 0) * 10 ^ (FracDigits - k)
       + FracUnits(d, k + 1)
\* parseFloat on a token of digits and dots: the longest prefix
\* \d*(\.\d*)? holding at least one digit, NaN when there is none
parseFloat(t) ==
  LET a      == RunEnd(t, 1, Digit)
      hasDot == a <= Len(t) /\ t[a] = "."
      b      == IF hasDot THEN RunEnd(t, a + 1, Digit) ELSE a
      whole  == SubSeq(t, 1, a - 1)
      frac   == IF hasDot THEN SubSeq(t, a + 1, b - 1) ELSE <<>>
  IN  IF whole = <<>> /\ frac = <<>> THEN NaN
      ELSE parseInt(whole) * Scale + FracUnits(frac, 1)
\* path.basename (posix): trailing slashes dropped, then the last component
basename(p) ==
  LET keep == {i \in 1..Len(p) : p[i] # "/"}
      q    == IF keep = {} THEN <<>> ELSE Take(p, SetMax(keep))
      sl   == {i \in 1..Len(q) : q[i] = "/"}
  IN  IF sl = {} THEN q ELSE Drop(q, SetMax(sl))

\* ------------------------------------------------- literals of the handler
NL == <<"\n">>
KwDownloadingVideoTag == <<"[", "d", "o", "w", "n", "l", "o", "a", "d", "]", " ", "D", "o", "w", "n", "l", "o", "a", "d", "i", "n", "g", " ", "v", "i", "d", "e", "o">>
KwDownloadingVideo == <<"D", "o", "w", "n", "l", "o", "a", "d", "i", "n", "g", " ", "v", "i", "d", "e", "o">>
KwDownloadingItem == <<"D", "o", "w", "n", "l", "o", "a", "d", "i", "n", "g", " ", "i", "t", "e", "m">>
KwDownloadDestination == <<"[", "d", "o", "w", "n", "l", "o", "a", "d", "]", " ", "D", "e", "s", "t", "i", "n", "a", "t", "i", "o", "n", ":">>
KwDestination == <<"D", "e", "s", "t", "i", "n", "a", "t", "i", "o", "n", ":">>
KwDownload == <<"[", "d", "o", "w", "n", "l", "o", "a", "d", "]">>
KwPercent == <<"%">>
KwMerging == <<"M", "e", "r", "g", "i", "n", "g", " ", "f", "o", "r", "m", "a", "t", "s">>
KwFfmpeg == <<"[", "f", "f", "m", "p", "e", "g", "]">>
KwOf == <<"o", "f">>
KwAt == <<"a", "t">>
KwETA == <<"E", "T", "A">>
KwPerSecond == <<"/", "s">>

\* --------------------------------------- regular expressions of the handler
\* a match is the sequence of its capture groups, <<>> when there is none

\* /(?:Downloading video|Downloading item)\s+(\d+)\s+of\s+(\d+)/ tried at i
SeqPosMatchAt(s, i) ==
  LET kw == IF StartsWithAt(s, KwDownloadingVideo, i) THEN Len(KwDownloadingVideo)
            ELSE IF StartsWithAt(s, KwDownloadingItem, i) THEN Len(KwDownloadingItem)
            ELSE 0
      a  == i + kw
      b  == RunEnd(s, a, WhiteSpace)
      c  == RunEnd(s, b, Digit)
      d  == RunEnd(s, c, WhiteSpace)
      e  == d + Len(KwOf)
      f  == RunEnd(s, e, WhiteSpace)
      g  == RunEnd(s, f, Digit)
  IN  IF kw > 0 /\ b > a /\ c > b /\ d > c /\ StartsWithAt(s, KwOf, d)
         /\ f > e /\ g > f
      THEN <<SubSeq(s, b, c - 1), SubSeq(s, f, g - 1)>>
      ELSE <<>>
SeqPosMatch(s) ==
  LET hits == {i \in 1..Len(s) : SeqPosMatchAt(s, i) # <<>>}
  IN  IF hits = {} THEN <<>> ELSE SeqPosMatchAt(s, SetMin(hits))

\* /([\d.]+)%/ : the leftmost run of digits and dots that ends at a '%'
PercentMatch(s) ==
  LET hits == {i \in 1..Len(s) : /\ s[i] \in NumChar
                                 /\ StartsWithAt(s, KwPercent, RunEnd(s, i, NumChar))}
  IN  IF hits = {} THEN <<>>
      ELSE <<SubSeq(s, SetMin(hits), RunEnd(s, SetMin(hits), NumChar) - 1)>>

\* the ends j of [\d.]+ (begun at b) from which \w+ can go on: b < j <= end of
\* the run; the greedy match takes the largest
NumSplits(s, b) ==
  {j \in (b + 1)..RunEnd(s, b, NumChar) : RunEnd(s, j, WordChar) > j}

\* /at\s+([\d.]+\w+\/s)/ tried at i
SpeedMatchAt(s, i) ==
  LET a  == i + Len(KwAt)
      b  == RunEnd(s, a, WhiteSpace)
      js == {j \in NumSplits(s, b) : StartsWithAt(s, KwPerSecond, RunEnd(s, j, WordChar))}
  IN  IF StartsWithAt(s, KwAt, i) /\ b > a /\ js # {}
      THEN <<SubSeq(s, b, RunEnd(s, SetMax(js), WordChar) + Len(KwPerSecond) - 1)>>
      ELSE <<>>
SpeedMatch(s) ==
  LET hits == {i \in 1..Len(s) : SpeedMatchAt(s, i) # <<>>}
  IN  IF hits = {} THEN <<>> ELSE SpeedMatchAt(s, SetMin(hits))

\* /ETA\s+([\d:]+)/ tried at i
EtaMatchAt(s, i) ==
  LET a == i + Len(KwETA)
      b == RunEnd(s, a, WhiteSpace)
      c == RunEnd(s, b, ClockChar)
  IN  IF StartsWithAt(s, KwETA, i) /\ b > a /\ c > b
      THEN <<SubSeq(s, b, c - 1)>>
      ELSE <<>>
EtaMatch(s) ==
  LET hits == {i \in 1..Len(s) : EtaMatchAt(s, i) # <<>>}
  IN  IF hits = {} THEN <<>> ELSE EtaMatchAt(s, SetMin(hits))

\* /of\s+([\d.]+\w+)/ tried at i
SizeMatchAt(s, i) ==
  LET a  == i + Len(KwOf)
      b  == RunEnd(s, a, WhiteSpace)
      js == NumSplits(s, b)
  IN  IF StartsWithAt(s, KwOf, i) /\ b > a /\ js # {}
      THEN <<SubSeq(s, b, RunEnd(s, SetMax(js), WordChar) - 1)>>
      ELSE <<>>
SizeMatch(s) ==
  LET hits == {i \in 1..Len(s) : SizeMatchAt(s, i) # <<>>}
  IN  IF hits = {} THEN <<>> ELSE SizeMatchAt(s, SetMin(hits))

\* ------------------------------------------------------------------ events
\* One event is the object passed to sendEvent.  status is the template of
\* the status text; progress is in units of 10^-FracDigits (NaN when not a
\* number); details is the list of its parts, <<>> for the empty or absent
\* text; videoIndex and videoTotal are <<>> when undefined, <<n>> otherwise.
Event(status, progress, details, videoIndex, videoTotal) ==
  [status |-> status, progress |-> progress, details |-> details,
   videoIndex |-> videoIndex, videoTotal |-> videoTotal]
Part(label, text) == [label |-> label, text |-> text]
Pct(n) == n * Scale

\* A job state c is the record of the variables the handler's callbacks
\* share (see Job below); the operators of a handler map job states to job
\* states.

\* controller.enqueue throws unless the stream is still readable
CanEnqueue(c) == c.stream = "readable"
\* try { controller.close(); } catch {}
ControllerClose(c) ==
  [c EXCEPT !.stream = IF @ = "readable" THEN "closed" ELSE @]

\* const sendEvent = (data) => { if (!isClosed) { try enqueue catch isClosed = true } }
sendEvent(c, data) ==
  IF ~c.isClosed
  THEN IF CanEnqueue(c)
       THEN [c EXCEPT !.events = Append(@, data)]
       ELSE [c EXCEPT !.isClosed = TRUE]
  ELSE c

\* ------------------------------------------- download: the stdout handler
\* playlistTotal > 0 ? playlistIndex : undefined
IndexOrUndefined(c) == IF c.playlistTotal > 0 THEN <<c.playlistIndex>> ELSE <<>>
TotalOrUndefined(c) == IF c.playlistTotal > 0 THEN <<c.playlistTotal>> ELSE <<>>

\* "Playlist detection": sequence-position rule
PlaylistRule(c, line) ==
  IF includes(line, KwDownloadingVideoTag) \/ includes(line, KwDownloadingItem)
  THEN LET match == SeqPosMatch(line)
       IN  IF match # <<>>
           THEN LET c1 == [c EXCEPT !.playlistIndex = parseInt(match[1]),
                                    !.playlistTotal = parseInt(match[2])]
                IN  sendEvent(c1,
                      Event("Playlist: Video N/M", c1.currentPercentage,
                            <<Part("Processing video N of M", <<>>)>>,
                            <<c1.playlistIndex>>, <<c1.playlistTotal>>))
           ELSE c
  ELSE c

\* "Get filename": destination rule
DestinationRule(c, line) ==
  IF includes(line, KwDownloadDestination)
  THEN LET filename == trim(split(line, KwDestination)[2])
           c1       == [c EXCEPT !.currentTitle = basename(filename)]
       IN  sendEvent(c1,
             Event(IF c1.playlistTotal > 0 THEN "Video N/M" ELSE "Downloading",
                   c1.currentPercentage,
                   <<Part("title", c1.currentTitle)>>,
                   IndexOrUndefined(c1), TotalOrUndefined(c1)))
  ELSE c

\* detail parts that name the title only
PercentDetailsTitleOnly(c, line) ==
  IF c.currentTitle # <<>> THEN <<Part("title", c.currentTitle)>> ELSE <<>>

\* the detail parts of a percentage event: [...].filter(Boolean).join(' | ')
PercentDetails(c, line) ==
  LET speedMatch == SpeedMatch(line)
      etaMatch   == EtaMatch(line)
      sizeMatch  == SizeMatch(line)
  IN  (IF c.currentTitle # <<>> THEN <<Part("title", c.currentTitle)>> ELSE <<>>)
      \o (IF sizeMatch # <<>> THEN <<Part("size", sizeMatch[1])>> ELSE <<>>)
      \o (IF speedMatch # <<>> THEN <<Part("speed", speedMatch[1])>> ELSE <<>>)
      \o (IF etaMatch # <<>> THEN <<Part("ETA", etaMatch[1])>> ELSE <<>>)

\* "Progress percentage": percentage rule
PercentRule(c, line) ==
  IF includes(line, KwDownload) /\ includes(line, KwPercent)
  THEN LET match == PercentMatch(line)
       IN  IF match # <<>>
           THEN LET c1 == [c EXCEPT !.currentPercentage = parseFloat(match[1])]
                IN  sendEvent(c1,
                      Event(IF c1.playlistTotal > 0 THEN "Video N/M: P%"
                                                    ELSE "Downloading: P%",
                            c1.currentPercentage,
                            PercentDetails(c1, line),
                            IndexOrUndefined(c1), TotalOrUndefined(c1)))
           ELSE c
  ELSE c

\* "Processing": post-processing rule
ProcessingRule(c, line) ==
  IF includes(line, KwMerging) \/ includes(line, KwFfmpeg)
  THEN sendEvent(c,
         Event(IF c.playlistTotal > 0 THEN "Processing video N/M"
                                      ELSE "Processing video",
               Pct(95),
               <<Part("Merging audio and video streams", <<>>)>>,
               IndexOrUndefined(c), TotalOrUndefined(c)))
  ELSE c

\* the body of the loop over the lines of one chunk
ProcessLine(c, line) ==
  IF trim(line) = <<>> THEN c
  ELSE ProcessingRule(PercentRule(DestinationRule(PlaylistRule(c, line), line), line), line)

RECURSIVE ProcessLines(_, _)
ProcessLines(c, lines) ==
  IF lines = <<>> THEN c
  ELSE ProcessLines(ProcessLine(c, Head(lines)), Tail(lines))

\* ytdlpProcess.stdout.on('data'): data.toString().split('\n'), then the loop
OnStdoutData(c, data) == ProcessLines(c, split(data, NL))

\* -------------------------------------------------------------------- state
VARIABLES
  kind,               \* which handler serves the job
  pc,                 \* position of the handler's control
  isClosed,           \* let isClosed
  stream,             \* state of the ReadableStream behind controller
  events,             \* the events enqueued on the stream, in order
  currentPercentage,  \* download: let currentPercentage
  playlistIndex,      \* download: let playlistIndex
  playlistTotal,      \* download: let playlistTotal
  currentTitle,       \* download: let currentTitle
  output,             \* download: the lines the tool has written so far
  stdoutRest,         \* download: bytes written but not yet handed to 'data'
  splits,             \* download: chunks so far that ended inside a line
  procs,              \* child processes spawned by the job so far
  closeEmitted,       \* 'close' of the latest child process has fired
  errorEmitted,       \* 'error' of the latest child process has fired
  exitCode,           \* the status the latest 'close' carried
  clips,              \* clip: the parsed clips (their names)
  i,                  \* clip: loop index
  outputPaths,        \* clip: const outputPaths
  tempDir,            \* clip, summarize, thumbnail: the temp directory on disk
  toolExists,         \* the executable the job runs is installed
  alive,              \* child processes spawned whose 'close' has not fired
  errOutput,          \* what the latest clip/summarize child wrote to its stderr
  stderr,             \* clip: let stderr; summarize: let ytdlpError
  projectId,          \* summarize: process.env.GCP_PROJECT_ID is set
  transcript,         \* summarize: length of const transcript, <<>> before
  credentials,        \* summarize: the service account read from the secret
  calls,              \* summarize: the collaborators called so far, in order
  summaryOutcome,     \* summarize: outcome of await summarizeWithVertexAI(...)
  now,                \* concurrent jobs: Date.now()
  runs,               \* concurrent jobs: the jobs that name files by the clock
  disk,               \* concurrent jobs: the paths that exist
  peers,              \* two download jobs: the closure variables of each
  peerLog,            \* two download jobs: the callbacks each has run
  content,            \* caption parser: the subtitle file read
  parsed,             \* caption parser: the parsers have run on content
  segments,           \* caption parser: result of parseSubtitlesWithTimestamps
  plainText,          \* caption parser: result of parseSubtitles
  summaryText,        \* chapter bookmarks: the generated summary
  timestampedTranscript, \* chapter bookmarks: the segments of the transcript
  extracted,          \* chapter bookmarks: extractTopicsFromSummary has run
  topics,             \* chapter bookmarks: result of extractTopicsFromSummary
  fedLines,           \* line classifier: the lines handed to it so far
  fedStates           \* line classifier: the job state after each of them

vars == <<kind, pc, isClosed, stream, events, currentPercentage, playlistIndex,
          playlistTotal, currentTitle, output, stdoutRest, splits, procs,
          closeEmitted, errorEmitted, exitCode, clips, i, outputPaths,
          tempDir, toolExists, alive, errOutput, stderr, projectId, transcript,
          credentials, calls, summaryOutcome, now, runs, disk,
          peers, peerLog, content, parsed, segments, plainText, summaryText,
          timestampedTranscript, extracted, topics, fedLines, fedStates>>
pipeVars == <<output, stdoutRest, splits>>
jobVars == <<pc, isClosed, stream, events, currentPercentage, playlistIndex,
             playlistTotal, currentTitle, procs, i, outputPaths, tempDir,
             alive, errOutput, stderr, transcript, credentials, calls,
             summaryOutcome>>
nameVars == <<now, runs, disk>>
pairVars == <<peers, peerLog>>
captionVars == <<content, parsed, segments, plainText>>
topicVars == <<summaryText, timestampedTranscript, extracted, topics>>
feedVars == <<fedLines, fedStates>>
\* every variable of the single job
oneJobVars == <<kind, toolExists, projectId, jobVars, pipeVars, closeEmitted,
                errorEmitted, exitCode, clips>>
\* what no step of a job on its own changes
restVars == <<kind, toolExists, projectId, nameVars, pairVars, captionVars,
              topicVars, feedVars>>

\* the handlers that answer with an event stream
StreamKinds == {"download", "clip", "summarize"}
JobKinds == StreamKinds \cup {"thumbnail"}
ClipNames == {"intro", "outro"}
\* exit status passed to 'close': <<n>> for a number, <<>> for null (signal)
ExitCodes == {<<0>>, <<1>>, <<>>}
\* outcomes of the successive fs.rmSync calls of one callback (TRUE: removed)
RmOutcomes == {<<TRUE, TRUE>>, <<FALSE, TRUE>>, <<FALSE, FALSE>>}

\* lines of tool output the download job is run on
LinePlaylist == <<"[", "d", "o", "w", "n", "l", "o", "a", "d", "]", " ", "D", "o", "w", "n", "l", "o", "a", "d", "i", "n", "g", " ", "v", "i", "d", "e", "o", " ", "1", " ", "o", "f", " ", "2">>
LineDestination == <<"[", "d", "o", "w", "n", "l", "o", "a", "d", "]", " ", "D", "e", "s", "t", "i", "n", "a", "t", "i", "o", "n", ":", " ", "f", "o", "o", ".", "m", "p", "4">>
LinePercent == <<"[", "d", "o", "w", "n", "l", "o", "a", "d", "]", " ", " ", "4", "5", ".", "2", "%", " ", "o", "f", " ", "1", "0", ".", "0", "0", "M", "i", "B", " ", "a", "t", " ", "1", ".", "2", "0", "M", "i", "B", "/", "s", " ", "E", "T", "A", " ", "0", "0", ":", "0", "8">>
LinePercentLow == <<"[", "d", "o", "w", "n", "l", "o", "a", "d", "]", " ", " ", "2", "0", ".", "0", "%", " ", "o", "f", " ", "1", "0", ".", "0", "0", "M", "i", "B">>
LinePercentOver == <<"[", "d", "o", "w", "n", "l", "o", "a", "d", "]", " ", "1", "5", "0", ".", "0", "%", " ", "o", "f", " ", "~", "1", "0", ".", "0", "0", "M", "i", "B">>
LinePercentDots == <<"[", "d", "o", "w", "n", "l", "o", "a", "d", "]", " ", "1", ".", "2", ".", "3", "%">>
LinePercentDot == <<"[", "d", "o", "w", "n", "l", "o", "a", "d", "]", " ", ".", "%">>
LineMerging == <<"[", "f", "f", "m", "p", "e", "g", "]", " ", "M", "e", "r", "g", "i", "n", "g", " ", "f", "o", "r", "m", "a", "t", "s">>
LineDestinationPercent == <<"[", "d", "o", "w", "n", "l", "o", "a", "d", "]", " ", "D", "e", "s", "t", "i", "n", "a", "t", "i", "o", "n", ":", " ", "5", "0", "%", ".", "m", "p", "4">>
LineInfo == <<"[", "i", "n", "f", "o", "]", " ", "W", "r", "i", "t", "i", "n", "g", " ", "m", "e", "t", "a", "d", "a", "t", "a">>
ToolLines == {LinePlaylist, LineDestination, LinePercent, LinePercentLow,
              LinePercentOver, LinePercentDots, LinePercentDot, LineMerging,
              LineDestinationPercent, LineInfo}

\* what a failing tool writes to its stderr
StderrTexts == {<<"E", "R", "R", "O", "R", ":", " ", "u", "n", "a", "v", "a", "i", "l", "a", "b", "l", "e", "\n">>}

RECURSIVE SeqsUpTo(_, _)
SeqsUpTo(S, n) ==
  IF n = 0 THEN {<<>>}
  ELSE LET shorter == SeqsUpTo(S, n - 1)
       IN  shorter \cup {Append(s, x) : s \in shorter, x \in S}

InitJob(kinds) ==
  /\ kind \in kinds
  /\ pc = "start"
  /\ isClosed = FALSE
  /\ stream = "readable"
  /\ events = <<>>
  /\ currentPercentage = 0
  /\ playlistIndex = 0
  /\ playlistTotal = 0
  /\ currentTitle = <<>>
  /\ output = <<>>
  /\ stdoutRest = <<>>
  /\ splits = 0
  /\ procs = 0
  /\ closeEmitted = FALSE
  /\ errorEmitted = FALSE
  /\ exitCode = <<>>
  /\ clips \in (IF kind = "clip" THEN SeqsUpTo(ClipNames, MaxClips) ELSE {<<>>})
  /\ i = 0
  /\ outputPaths = <<>>
  /\ tempDir = "absent"
  /\ toolExists \in BOOLEAN
  /\ alive = 0
  /\ errOutput = <<>>
  /\ stderr = <<>>
  /\ projectId \in (IF kind = "summarize" THEN BOOLEAN ELSE {TRUE})
  /\ transcript = <<>>
  /\ credentials = "none"
  /\ calls = <<>>
  /\ summaryOutcome = "none"


\* the variables the callbacks of the job read and write and the state of its
\* child process, as one record
Job ==
  [pc |-> pc, isClosed |-> isClosed, stream |-> stream, events |-> events,
   currentPercentage |-> currentPercentage, playlistIndex |-> playlistIndex,
   playlistTotal |-> playlistTotal, currentTitle |-> currentTitle,
   procs |-> procs, i |-> i, outputPaths |-> outputPaths, tempDir |-> tempDir,
   alive |-> alive, errOutput |-> errOutput, stderr |-> stderr,
   transcript |-> transcript, credentials |-> credentials, calls |-> calls,
   summaryOutcome |-> summaryOutcome]
\* the job's variables after a callback that ended in job state c
Becomes(c) ==
  /\ pc' = c.pc
  /\ isClosed' = c.isClosed
  /\ stream' = c.stream
  /\ events' = c.events
  /\ currentPercentage' = c.currentPercentage
  /\ playlistIndex' = c.playlistIndex
  /\ playlistTotal' = c.playlistTotal
  /\ currentTitle' = c.currentTitle
  /\ procs' = c.procs
  /\ i' = c.i
  /\ outputPaths' = c.outputPaths
  /\ tempDir' = c.tempDir
  /\ alive' = c.alive
  /\ errOutput' = c.errOutput
  /\ stderr' = c.stderr
  /\ transcript' = c.transcript
  /\ credentials' = c.credentials
  /\ calls' = c.calls
  /\ summaryOutcome' = c.summaryOutcome
\* a terminal path that neither sets isClosed nor closes the controller
CloseStreamSkipped(c) == c
\* isClosed = true; try { controller.close(); } catch {}
CloseStream(c) == ControllerClose([c EXCEPT !.isClosed = TRUE])
\* spawn(cmd, args): a new child process; let stderr = '' / let ytdlpError = ''
Spawn(c) ==
  [c EXCEPT !.procs = @ + 1, !.alive = @ + 1, !.errOutput = <<>>, !.stderr = <<>>]
\* the child process has ended and its stdio is closed: 'close' is emitted
Exited(c) == [c EXCEPT !.alive = @ - 1]
\* an exception leaves start(): the stream is errored, nothing else runs
StartThrows(c) ==
  [c EXCEPT !.pc = "thrown", !.stream = IF @ = "readable" THEN "errored" ELSE @]

\* an error event that keeps a mid-job progress and carries no message
ErrorEventBare(label) == Event("error", Pct(50), <<>>, <<>>, <<>>)
\* { status: 'error', progress: 0, details: <message> }
ErrorEvent(label) == Event("error", Pct(0), <<Part(label, <<>>)>>, <<>>, <<>>)
StatusEvent(status, progress) == Event(status, progress, <<>>, <<>>, <<>>)

\* ------------------------------------------------------------ download job
\* start(controller) of the download stream, up to its return
OnDownloadStart(c, exists) ==
  IF ~exists
  THEN [CloseStream(sendEvent(c, ErrorEvent("yt-dlp not found.")))
          EXCEPT !.pc = "returned"]
  ELSE [Spawn(sendEvent(c, Event("Starting download...", Pct(0),
                                 <<Part("Initializing...", <<>>)>>, <<>>, <<>>)))
          EXCEPT !.pc = "spawned"]

DownloadStart(exists) ==
  /\ kind = "download"
  /\ pc = "start"
  /\ exists = toolExists
  /\ Becomes(OnDownloadStart(Job, exists))
  /\ UNCHANGED <<restVars, exitCode, pipeVars, closeEmitted, errorEmitted, clips>>

\* the tool prints one more line (--newline: every line ends in \n)
ToolWrite(line) ==
  /\ kind = "download"
  /\ pc = "spawned"
  /\ ~closeEmitted
  /\ Len(output) < MaxLines
  /\ output' = Append(output, line)
  /\ stdoutRest' = stdoutRest \o line \o NL
  /\ UNCHANGED <<restVars, jobVars, splits, closeEmitted, errorEmitted, exitCode, clips>>

\* ytdlpProcess.stdout.on('data') on the first k pending bytes
OnData(k) ==
  /\ kind = "download"
  /\ pc = "spawned"
  /\ Becomes(OnStdoutData(Job, Take(stdoutRest, k)))
  /\ stdoutRest' = Drop(stdoutRest, k)
  /\ UNCHANGED <<restVars, exitCode, output, closeEmitted, errorEmitted, clips>>

\* a chunk that ends with the end of a line
StdoutData(k) ==
  /\ k \in 1..Len(stdoutRest)
  /\ stdoutRest[k] = "\n"
  /\ OnData(k)
  /\ splits' = splits

\* a chunk that ends inside a line
StdoutSplit(k) ==
  /\ k \in 1..Len(stdoutRest)
  /\ stdoutRest[k] # "\n"
  /\ splits < MaxSplits
  /\ OnData(k)
  /\ splits' = splits + 1

\* ytdlpProcess.on('close', (code) => ...)
OnDownloadClose(c, code) ==
  CloseStream(sendEvent(Exited(c),
    IF code = <<0>>
    THEN Event("completed", Pct(100), <<Part("Files saved to: ", <<>>)>>, <<>>, <<>>)
    ELSE Event("error", Pct(0),
               <<Part("Download failed with exit code: ", code)>>, <<>>, <<>>)))

\* 'close' of the download's process
DownloadClose(code) ==
  /\ kind = "download"
  /\ pc = "spawned"
  /\ ~closeEmitted
  /\ closeEmitted' = TRUE
  /\ exitCode' = code
  /\ Becomes(OnDownloadClose(Job, code))
  /\ UNCHANGED <<restVars, pipeVars, errorEmitted, clips>>

\* ytdlpProcess.on('error')
DownloadError ==
  /\ kind = "download"
  /\ pc = "spawned"
  /\ ~errorEmitted
  /\ errorEmitted' = TRUE
  /\ Becomes(CloseStream(sendEvent(Job, ErrorEvent("Error: "))))
  /\ UNCHANGED <<restVars, exitCode, pipeVars, closeEmitted, clips>>

\* <child>.stderr.on('data'): the clip and summarize handlers append the
\* chunk to their stderr / ytdlpError (the download handler only logs it: no
\* variable of the job changes, and no step is taken for it)
StderrData(text) ==
  /\ kind \in {"clip", "summarize"}
  /\ toolExists
  /\ alive > 0
  /\ Len(errOutput) < MaxStderr
  /\ Becomes([Job EXCEPT !.errOutput = Append(@, text), !.stderr = @ \o text])
  /\ UNCHANGED <<restVars, exitCode, pipeVars, closeEmitted, errorEmitted, clips>>

\* the subscriber closes its EventSource / aborts the request: the stream is
\* cancelled; no handler defines cancel(), so nothing else changes
ClientCancel ==
  /\ kind \in StreamKinds
  /\ pc # "start"
  /\ stream = "readable"
  /\ Becomes([Job EXCEPT !.stream = "cancelled"])
  /\ UNCHANGED <<restVars, exitCode, pipeVars, closeEmitted, errorEmitted, clips>>

\* ---------------------------------------------------------------- clip job
\* 20 + Math.floor(((i + 0.5) / totalClips) * 70); the doubles of the code
\* have this integer value for every totalClips below 35
ClipProgress(idx, totalClips) == Pct(20 + ((2 * idx + 1) * 35) \div totalClips)
\* the progress after a clip taken as the progress at its start
ClipProgressAfterUnmoved(idx, totalClips) == Pct(20 + ((2 * idx + 1) * 35) \div totalClips)

\* 20 + Math.floor(((i + 1) / totalClips) * 70)
ClipProgressAfter(idx, totalClips) == Pct(20 + ((idx + 1) * 70) \div totalClips)

\* isClosed = true; try { controller.close() } catch {} : the end of start()
ClipEnd(c) == [CloseStream(c) EXCEPT !.pc = "done"]

\* catch (error) { sendEvent(error); fs.rmSync(tempDir) } and the end of
\* start(); an exception of this rmSync rejects start()
ClipCatch(c, errorMessage, rmOk) ==
  LET c1 == sendEvent(c, Event("error", Pct(0),
                               <<Part("Error processing clips: ", <<>>)>> \o errorMessage,
                               <<>>, <<>>))
  IN  IF rmOk THEN ClipEnd([c1 EXCEPT !.tempDir = "removed"])
      ELSE StartThrows(c1)

\* after the loop: sendEvent(completed); fs.rmSync(tempDir), still inside try
ClipCompleted(c, rm) ==
  LET c1 == sendEvent(c, Event("completed", Pct(100),
                               <<Part("N clip(s) saved to: ", <<Len(c.outputPaths)>>)>>,
                               <<>>, <<>>))
  IN  IF rm[1] THEN ClipEnd([c1 EXCEPT !.tempDir = "removed"])
      ELSE ClipCatch(c1, <<>>, rm[2])

\* the loop head at index c.i: the 'Extracting' event and the spawn of ffmpeg,
\* up to the await; past the last clip, the code after the loop
ClipLoop(c, rm) ==
  IF c.i < Len(clips)
  THEN [Spawn(sendEvent(c, StatusEvent("Extracting clip I/N: name",
                                       ClipProgress(c.i, Len(clips)))))
          EXCEPT !.pc = "awaitFfmpeg"]
  ELSE ClipCompleted(c, rm)

\* async start(controller) up to its first await (videoFile.arrayBuffer())
ClipStart(mkTemp, mkOutput) ==
  /\ kind = "clip"
  /\ pc = "start"
  /\ Becomes(IF ~mkTemp THEN StartThrows(Job)
             ELSE IF ~mkOutput THEN StartThrows([Job EXCEPT !.tempDir = "present"])
             ELSE [sendEvent([Job EXCEPT !.tempDir = "present"],
                             StatusEvent("Uploading video...", Pct(10)))
                     EXCEPT !.pc = "awaitUpload"])
  /\ UNCHANGED <<restVars, exitCode, pipeVars, closeEmitted, errorEmitted, clips>>

\* the upload has been read (or reading or writing it threw): write the input
\* file, send 20 and enter the loop
ClipUploaded(saved, rm) ==
  /\ kind = "clip"
  /\ pc = "awaitUpload"
  /\ Becomes(IF ~saved THEN ClipCatch(Job, <<>>, rm[1])
             ELSE ClipLoop(sendEvent(Job, StatusEvent("Processing clips...", Pct(20))),
                           rm))
  /\ closeEmitted' = FALSE
  /\ errorEmitted' = FALSE
  /\ UNCHANGED <<restVars, exitCode, pipeVars, clips>>

\* a 'close' callback that settles the promise as fulfilled whatever the status
OnFfmpegCloseAnyCode(c, code, rm) ==
  LET pushed == [Exited(c) EXCEPT !.outputPaths = Append(@, clips[c.i + 1])]
  IN  IF c.pc # "awaitFfmpeg" THEN pushed
      ELSE ClipLoop([sendEvent(pushed,
                       StatusEvent("Completed clip I/N: name",
                                   ClipProgressAfter(c.i, Len(clips))))
                       EXCEPT !.i = @ + 1],
                    rm)
\* ffmpeg.on('close') and, when this call settles the awaited promise, the
\* continuation of the loop: the next iteration or the catch block
OnFfmpegClose(c, code, rm) ==
  LET pushed == IF code = <<0>>
                THEN [Exited(c) EXCEPT !.outputPaths = Append(@, clips[c.i + 1])]
                ELSE Exited(c)
  IN  IF c.pc # "awaitFfmpeg" THEN pushed
      ELSE IF code = <<0>>
      THEN ClipLoop([sendEvent(pushed,
                       StatusEvent("Completed clip I/N: name",
                                   ClipProgressAfter(c.i, Len(clips))))
                       EXCEPT !.i = @ + 1],
                    rm)
      ELSE ClipCatch(pushed,
                     <<Part("ffmpeg exited with code ", code), Part(": ", c.stderr)>>,
                     rm[1])

\* 'close' of the latest ffmpeg process
FfmpegClose(code, rm) ==
  /\ kind = "clip"
  /\ procs > 0
  /\ ~closeEmitted
  /\ toolExists \/ (errorEmitted /\ code # <<0>>)
  /\ LET next == OnFfmpegClose(Job, code, rm)
     IN  /\ Becomes(next)
         /\ closeEmitted' = (next.procs = procs)
         /\ exitCode' = code
         /\ errorEmitted' = (errorEmitted /\ next.procs = procs)
  /\ UNCHANGED <<restVars, pipeVars, clips>>

\* ffmpeg.on('error') of the latest process
FfmpegError(rm) ==
  /\ kind = "clip"
  /\ procs > 0
  /\ ~errorEmitted
  /\ errorEmitted' = TRUE
  /\ Becomes(IF pc = "awaitFfmpeg"
             THEN ClipCatch(Job, <<Part("ffmpeg error: ", <<>>)>>, rm[1])
             ELSE Job)
  /\ UNCHANGED <<restVars, exitCode, pipeVars, closeEmitted, clips>>

\* ----------------------------------------------------------- summarize job
\* what the 'close' callback finds after the tool exited with 0
SubtitleOutcomes == {"readdirThrows", "noSubtitleFile", "readFileThrows", "read"}
\* lengths of the plain text parsed from the subtitle file
TranscriptLengths == {0, 99, 100}
\* how client.accessSecretVersion and the reading of its payload end
SecretOutcomes == {"rejected", "emptyPayload", "invalidJson", "ok"}

\* a length test that lets all but very short transcripts through
TranscriptTooShortBelowTen(length) == length < 10
\* !transcript || transcript.length < 100
TranscriptTooShort(length) == length = 0 \/ length < 100
\* a collaborator is called
Call(c, name) == [c EXCEPT !.calls = Append(@, name)]

\* sendEvent(error); isClosed = true; controller.close(); fs.rmSync(tempDir);
\* return -- at position 'at' when rmSync returns, 'thrown' when it throws
SummarizeFail(c, label, rmOk, at, thrown) ==
  LET c1 == CloseStream(sendEvent(c, ErrorEvent(label)))
  IN  IF rmOk THEN [c1 EXCEPT !.tempDir = "removed", !.pc = at]
      ELSE [c1 EXCEPT !.pc = thrown]

\* start(controller) of the summarize stream, up to its return
SummarizeStart(mkTemp, exists, rm) ==
  /\ kind = "summarize"
  /\ pc = "start"
  /\ exists = toolExists
  /\ Becomes(
       IF ~mkTemp THEN StartThrows(Job)
       ELSE LET c1 == sendEvent([Job EXCEPT !.tempDir = "present"],
                                StatusEvent("Fetching podcast information...", Pct(10)))
            IN  IF ~exists
                THEN SummarizeFail(c1, "yt-dlp not found.", rm[1], "returned", "thrown")
                ELSE [Spawn(sendEvent(c1, StatusEvent("Downloading transcript...", Pct(30))))
                        EXCEPT !.pc = "spawned"])
  /\ UNCHANGED <<restVars, exitCode, pipeVars, closeEmitted, errorEmitted, clips>>

\* a catch block that reports the failure as one more progress event
SummarizeCatchAsProgress(c, rmOk) ==
  LET c1 == sendEvent(c, StatusEvent("Summarization failed: ", Pct(70)))
  IN  IF rmOk THEN [CloseStream([c1 EXCEPT !.tempDir = "removed"]) EXCEPT !.pc = "done"]
      ELSE [c1 EXCEPT !.pc = "rejected"]

\* catch (error) of the summarization step: sendEvent(error); fs.rmSync;
\* isClosed = true; controller.close()
SummarizeCatch(c, rmOk) ==
  LET c1 == sendEvent(c, ErrorEvent("Summarization failed: "))
  IN  IF rmOk THEN [CloseStream([c1 EXCEPT !.tempDir = "removed"]) EXCEPT !.pc = "done"]
      ELSE [c1 EXCEPT !.pc = "rejected"]

\* a summarization that goes on to the secret without looking at the project
SummarizeWithVertexAIUnchecked(c, hasProject, rmOk) ==
  [Call(Call(c, "summarizeWithVertexAI"), "accessSecretVersion")
     EXCEPT !.pc = "awaitSecret"]
\* summarizeWithVertexAI(...) up to its first await: without GCP_PROJECT_ID
\* it throws and the catch block of the caller runs; otherwise
\* getServiceAccountFromSecretManager() awaits client.accessSecretVersion
SummarizeWithVertexAI(c, hasProject, rmOk) ==
  LET c1 == Call(c, "summarizeWithVertexAI")
  IN  IF ~hasProject THEN SummarizeCatch([c1 EXCEPT !.summaryOutcome = "threw"], rmOk)
      ELSE [Call(c1, "accessSecretVersion") EXCEPT !.pc = "awaitSecret"]

\* ytdlpProcess.on('close', async (code) => ...) up to its await or return
SummarizeClose(code, found, length, rm) ==
  /\ kind = "summarize"
  /\ pc = "spawned"
  /\ ~closeEmitted
  /\ closeEmitted' = TRUE
  /\ exitCode' = code
  /\ Becomes(
       IF code # <<0>>
       THEN SummarizeFail(Exited(Job), "Failed to download transcript.", rm[1],
                          "done", "rejected")
       ELSE LET c1 == sendEvent(Exited(Job),
                                StatusEvent("Processing transcript...", Pct(50)))
                c2 == [c1 EXCEPT !.transcript = <<length>>]
            IN  CASE found = "readdirThrows"  -> [c1 EXCEPT !.pc = "rejected"]
                  [] found = "noSubtitleFile" ->
                       SummarizeFail(c1, "No subtitle file found.", rm[1], "done", "rejected")
                  [] found = "readFileThrows" -> [c1 EXCEPT !.pc = "rejected"]
                  [] found = "read"           ->
                       IF TranscriptTooShort(length)
                       THEN SummarizeFail(c2, "Transcript is too short or empty.", rm[1],
                                          "done", "rejected")
                       ELSE SummarizeWithVertexAI(
                              sendEvent(c2, StatusEvent("Sending to Vertex AI for summarization...",
                                                        Pct(70))),
                              projectId, rm[1]))
  /\ UNCHANGED <<restVars, pipeVars, errorEmitted, clips>>

\* the continuation of await client.accessSecretVersion(...): a rejection, an
\* empty payload and a JSON.parse error are rethrown to the caller's catch
\* block; with the credentials the model is built and model.generateContent
\* is awaited
SecretReturn(secret, rm) ==
  /\ kind = "summarize"
  /\ pc = "awaitSecret"
  /\ Becomes(
       IF secret = "ok"
       THEN [Call([Job EXCEPT !.credentials = "loaded"], "generateContent")
               EXCEPT !.pc = "awaitSummarize"]
       ELSE SummarizeCatch([Job EXCEPT !.credentials = "failed",
                                       !.summaryOutcome = "threw"], rm[1]))
  /\ UNCHANGED <<restVars, exitCode, pipeVars, closeEmitted, errorEmitted, clips>>

\* the continuation of await model.generateContent(prompt): it returned
\* (summarized), so that summarizeWithVertexAI returns, or threw
\* a rejected generateContent answered by a second call
OnSummarizeReturnRetry(c, summarized, rm) ==
  IF summarized
  THEN LET c1 == sendEvent([c EXCEPT !.summaryOutcome = "text"],
                           Event("completed", Pct(100), <<>>, <<>>, <<>>))
       IN  IF rm[1]
           THEN [CloseStream([c1 EXCEPT !.tempDir = "removed"]) EXCEPT !.pc = "done"]
           ELSE SummarizeCatch(c1, rm[2])
  ELSE Call([c EXCEPT !.summaryOutcome = "threw"], "generateContent")
\* const summary = await summarizeWithVertexAI(...) resumes: 'completed' and
\* the cleanup, or the exception of generateContent in the catch block
OnSummarizeReturn(c, summarized, rm) ==
  IF summarized
  THEN LET c1 == sendEvent([c EXCEPT !.summaryOutcome = "text"],
                           Event("completed", Pct(100), <<>>, <<>>, <<>>))
       IN  IF rm[1]
           THEN [CloseStream([c1 EXCEPT !.tempDir = "removed"]) EXCEPT !.pc = "done"]
           ELSE SummarizeCatch(c1, rm[2])
  ELSE SummarizeCatch([c EXCEPT !.summaryOutcome = "threw"], rm[1])

SummarizeReturn(summarized, rm) ==
  /\ kind = "summarize"
  /\ pc = "awaitSummarize"
  /\ Becomes(OnSummarizeReturn(Job, summarized, rm))
  /\ UNCHANGED <<restVars, exitCode, pipeVars, closeEmitted, errorEmitted, clips>>

\* 'error' of the child process: the handler registers no listener for it, so
\* the emitter throws; the exception is uncaught and ends the server process
\* (crash = TRUE) unless the host swallows it
SummarizeError(crash) ==
  /\ kind = "summarize"
  /\ pc \in {"spawned", "awaitSecret", "awaitSummarize", "done", "rejected"}
  /\ procs > 0
  /\ ~errorEmitted
  /\ errorEmitted' = TRUE
  /\ Becomes(IF crash THEN [Job EXCEPT !.pc = "crashed"] ELSE Job)
  /\ UNCHANGED <<restVars, exitCode, pipeVars, closeEmitted, clips>>

\* ----------------------------------------------------------- thumbnail job
\* what the synchronous tool calls of one request do: the yt-dlp download of
\* the url, ffprobe (autoMode), and whether ffmpeg threw, wrote no frame or
\* wrote some
ThumbnailRuns ==
  [downloaded : BOOLEAN, autoMode : BOOLEAN, probed : BOOLEAN,
   extracted : {"threw", "none", "some"}]

\* catch (error) of the handler: fs.rmSync(tempDir) and a 500 response; an
\* exception of this rmSync rejects the handler
ThumbnailCatch(c, rmOk) ==
  IF rmOk THEN [c EXCEPT !.tempDir = "removed", !.pc = "failed"]
  ELSE [c EXCEPT !.pc = "thrown"]

\* fs.rmSync(tempDir) inside the try block followed by a return; an exception
\* of rmSync lands in the catch of the handler
ThumbnailRespond(c, rm, status) ==
  IF rm[1] THEN [c EXCEPT !.tempDir = "removed", !.pc = status]
  ELSE ThumbnailCatch(c, rm[2])

\* with the input file in place: extract the frames, clean up, respond
ThumbnailExtract(c, run, rm) ==
  IF run.autoMode
  THEN IF ~run.probed THEN ThumbnailRespond(c, rm, "failed")
       \* a frame whose ffmpeg call threw is skipped
       ELSE ThumbnailRespond(c, rm, IF run.extracted = "some" THEN "responded"
                                    ELSE "failed")
  ELSE IF run.extracted = "threw" THEN ThumbnailRespond(c, rm, "failed")
       ELSE ThumbnailRespond(c, rm, IF run.extracted = "some" THEN "responded"
                                    ELSE "failed")

\* POST from the creation of the temp directory up to its first await (an
\* uploaded file) or, for a url, up to its response
ThumbnailStart(mkTemp, hasFile, run, rm) ==
  /\ kind = "thumbnail"
  /\ pc = "start"
  /\ Becomes(
       IF ~mkTemp THEN [Job EXCEPT !.pc = "thrown"]
       ELSE LET c1 == [Job EXCEPT !.tempDir = "present"]
            IN  IF hasFile THEN [c1 EXCEPT !.pc = "awaitUpload"]
                ELSE IF ~toolExists THEN ThumbnailRespond(c1, rm, "failed")
                ELSE IF ~run.downloaded THEN ThumbnailRespond(c1, rm, "failed")
                ELSE ThumbnailExtract(c1, run, rm))
  /\ UNCHANGED <<restVars, exitCode, pipeVars, closeEmitted, errorEmitted, clips>>

\* the uploaded file has been read (or reading or writing it threw)
ThumbnailUploaded(saved, run, rm) ==
  /\ kind = "thumbnail"
  /\ pc = "awaitUpload"
  /\ Becomes(IF ~saved THEN ThumbnailCatch(Job, rm[1])
             ELSE ThumbnailExtract(Job, run, rm))
  /\ UNCHANGED <<restVars, exitCode, pipeVars, closeEmitted, errorEmitted, clips>>

\* ------------------------------------------ jobs that name files by the clock
\* the last value of the millisecond clock
MaxClock == 1
RunIds == {1, 2}
\* the handlers that create a temp directory
TempKinds == {"clip", "summarize", "thumbnail"}
\* clip names as the request gives them
RawNames == {<<"a", " ", "b">>, <<"a", "_", "b">>}

\* clip.name.replace(/[^a-z0-9]/gi, '_')
safeName(name) ==
  [k \in 1..Len(name) |->
     IF name[k] \in Lower \cup Upper \cup Digit THEN name[k] ELSE "_"]
\* `clip-${Date.now()}`, `podcast-${Date.now()}`, `thumbnail-${Date.now()}`
\* under os.tmpdir()
TempDirPath(k, t) ==
  [dir |-> "tmpdir",
   name |-> CASE k = "clip"      -> <<"c", "l", "i", "p", "-">>
              [] k = "summarize" -> <<"p", "o", "d", "c", "a", "s", "t", "-">>
              [] k = "thumbnail" -> <<"t", "h", "u", "m", "b", "n", "a", "i", "l", "-">>,
   stamp |-> t]
\* path.join(outputDir, `${safeName}_${Date.now()}.mp4`)
OutputPath(name, t) == [dir |-> "Clips", name |-> safeName(name) \o <<"_">>, stamp |-> t]

\* a job that has not started: its kind and, for a clip job, its clips
IdleRuns ==
  {[kind |-> k, pc |-> "idle", tempDir |-> <<>>, i |-> 0, clips |-> cs, outputs |-> <<>>] :
     k \in TempKinds \ {"clip"}, cs \in {<<>>}}
  \cup
  {[kind |-> "clip", pc |-> "idle", tempDir |-> <<>>, i |-> 0, clips |-> cs, outputs |-> <<>>] :
     cs \in SeqsUpTo(RawNames, MaxClips) \ {<<>>}}

\* the clock moves on by a millisecond
Tick ==
  /\ now < MaxClock
  /\ now' = now + 1
  /\ UNCHANGED <<runs, disk, oneJobVars, pairVars, captionVars, topicVars, feedVars>>

\* const tempDir = ...; fs.mkdirSync(tempDir, { recursive: true }): no error
\* when the directory exists
RunStart(j) ==
  /\ runs[j].pc = "idle"
  /\ LET dir == TempDirPath(runs[j].kind, now)
     IN  /\ runs' = [runs EXCEPT ![j].pc = "running", ![j].tempDir = <<dir>>]
         /\ disk' = disk \cup {dir}
  /\ now' = now
  /\ UNCHANGED <<oneJobVars, pairVars, captionVars, topicVars, feedVars>>

\* one iteration of the clip loop: ffmpeg ... -y outputPath writes the file,
\* replacing a file of that name
RunClip(j) ==
  /\ runs[j].kind = "clip"
  /\ runs[j].pc = "running"
  /\ runs[j].i < Len(runs[j].clips)
  /\ LET outputPath == OutputPath(runs[j].clips[runs[j].i + 1], now)
     IN  /\ runs' = [runs EXCEPT ![j].i = @ + 1, ![j].outputs = Append(@, outputPath)]
         /\ disk' = disk \cup {outputPath}
  /\ now' = now
  /\ UNCHANGED <<oneJobVars, pairVars, captionVars, topicVars, feedVars>>

\* the job ends (after its last clip, or on a failure before):
\* fs.rmSync(tempDir, { recursive: true, force: true })
RunFinish(j) ==
  /\ runs[j].pc = "running"
  /\ runs' = [runs EXCEPT ![j].pc = "done"]
  /\ disk' = disk \ {runs[j].tempDir[1]}
  /\ now' = now
  /\ UNCHANGED <<oneJobVars, pairVars, captionVars, topicVars, feedVars>>

\* ------------------------------------------------ two concurrent download jobs
\* lines of tool output a job receives
MaxPeerLines == 2
PeerIds == {1, 2}
PeerLines == {LinePlaylist, LineDestination, LinePercent, LineMerging}

\* the closure variables of a start(controller) call that has just begun
FreshJob ==
  [pc |-> "start", isClosed |-> FALSE, stream |-> "readable", events |-> <<>>,
   currentPercentage |-> 0, playlistIndex |-> 0, playlistTotal |-> 0,
   currentTitle |-> <<>>, procs |-> 0, i |-> 0, outputPaths |-> <<>>,
   tempDir |-> "absent", alive |-> 0, errOutput |-> <<>>, stderr |-> <<>>,
   transcript |-> <<>>, credentials |-> "none", calls |-> <<>>,
   summaryOutcome |-> "none"]

\* parser variables declared once for the module: every job reads those the
\* first job wrote
ClosureOfShared(js, j) ==
  [js[j] EXCEPT !.currentPercentage = js[1].currentPercentage,
                !.playlistIndex = js[1].playlistIndex,
                !.playlistTotal = js[1].playlistTotal,
                !.currentTitle = js[1].currentTitle]
\* the variables the callbacks of job j close over: those declared by its own
\* call of start(controller)
ClosureOf(js, j) == js[j]

\* one callback of a download job run on its closure variables
OnCallback(c, call) ==
  CASE call.on = "start" -> OnDownloadStart(c, TRUE)
    [] call.on = "data"  -> OnStdoutData(c, call.arg \o NL)
    [] call.on = "close" -> OnDownloadClose(c, call.arg)

RECURSIVE RunAlone(_, _)
\* the job state after the callbacks of log, run one after another
RunAlone(c, log) ==
  IF log = <<>> THEN c ELSE RunAlone(OnCallback(c, Head(log)), Tail(log))

PeerCall(j, call) ==
  /\ peers' = [peers EXCEPT ![j] = OnCallback(ClosureOf(peers, j), call)]
  /\ peerLog' = [peerLog EXCEPT ![j] = Append(@, call)]
  /\ UNCHANGED <<oneJobVars, nameVars, captionVars, topicVars, feedVars>>

\* GET of job j: start(controller)
PeerStart(j) ==
  /\ peers[j].pc = "start"
  /\ PeerCall(j, [on |-> "start", arg |-> <<>>])

\* the process of job j hands a line to its 'data' callback
PeerData(j, line) ==
  /\ peers[j].pc = "spawned"
  /\ peers[j].alive > 0
  /\ Len(peerLog[j]) <= MaxPeerLines
  /\ PeerCall(j, [on |-> "data", arg |-> line])

\* the process of job j closes
PeerClose(j, code) ==
  /\ peers[j].pc = "spawned"
  /\ peers[j].alive > 0
  /\ PeerCall(j, [on |-> "close", arg |-> code])

\* ------------------------------------------------------------ caption parser
\* lines of a caption document
MaxDocLines == 4

KwArrow == <<"-", "-", ">">>
KwWebvtt == <<"W", "E", "B", "V", "T", "T">>
KwNote == <<"N", "O", "T", "E">>
\* [a-z] under the i flag
Letter == Lower \cup Upper

\* /(\d{2}):(\d{2}):(\d{2})(?:\.\d{3})?\s*-->/ matched at position p: the
\* three captures, <<>> when it does not match there
TimestampMatchAt(s, p) ==
  LET d(k)     == p + k <= Len(s) /\ s[p + k] \in Digit
      c(k, ch) == p + k <= Len(s) /\ s[p + k] = ch
      clock    == /\ d(0) /\ d(1) /\ c(2, ":") /\ d(3) /\ d(4) /\ c(5, ":")
                  /\ d(6) /\ d(7)
      millis   == c(8, ".") /\ d(9) /\ d(10) /\ d(11)
      rest     == IF millis THEN p + 12 ELSE p + 8
  IN  IF clock /\ StartsWithAt(s, KwArrow, RunEnd(s, rest, WhiteSpace))
      THEN <<SubSeq(s, p, p + 1), SubSeq(s, p + 3, p + 4), SubSeq(s, p + 6, p + 7)>>
      ELSE <<>>
\* line.match(...): the leftmost match
TimestampMatch(s) ==
  LET hits == {p \in 1..Len(s) : TimestampMatchAt(s, p) # <<>>}
  IN  IF hits = {} THEN <<>> ELSE TimestampMatchAt(s, SetMin(hits))

\* /^\d+$/
IsDigits(s) == s # <<>> /\ \A k \in 1..Len(s) : s[k] \in Digit
\* /\d{2}:\d{2}:\d{2}/
HasClock(s) ==
  \E p \in 1..Len(s) :
    /\ p + 7 <= Len(s)
    /\ \A k \in {0, 1, 3, 4, 6, 7} : s[p + k] \in Digit
    /\ s[p + 2] = ":" /\ s[p + 5] = ":"

\* the index of the ">" that ends a match of /<[^>]+>/ starting at p, 0 when
\* there is no match at p
TagEnd(s, p) ==
  LET closes == {q \in (p + 1)..Len(s) : s[q] = ">"}
  IN  IF s[p] = "<" /\ closes # {} /\ SetMin(closes) >= p + 2
      THEN SetMin(closes) ELSE 0
RECURSIVE StripTags(_)
\* replace(/<[^>]+>/g, '')
StripTags(s) ==
  LET tags == {p \in 1..Len(s) : TagEnd(s, p) # 0}
  IN  IF tags = {} THEN s
      ELSE LET p == SetMin(tags)
           IN  Take(s, p - 1) \o StripTags(Drop(s, TagEnd(s, p)))

\* const entities
EntityValue(match) ==
  CASE match = <<"&", "a", "m", "p", ";">>  -> <<"&">>
    [] match = <<"&", "l", "t", ";">>   -> <<"<">>
    [] match = <<"&", "g", "t", ";">>   -> <<">">>
    [] match = <<"&", "q", "u", "o", "t", ";">> -> <<"\"">>
    [] match = <<"&", "#", "3", "9", ";">>  -> <<"'">>
    [] match = <<"&", "n", "b", "s", "p", ";">> -> <<" ">>
    [] OTHER             -> match
\* the index of the ";" that ends a match of /&[a-z]+;|&#\d+;/i starting at
\* p, 0 when there is no match at p
EntityEnd(s, p) ==
  LET e == RunEnd(s, p + 1, Letter)
      n == RunEnd(s, p + 2, Digit)
  IN  IF s[p] # "&" THEN 0
      ELSE IF e > p + 1 /\ e <= Len(s) /\ s[e] = ";" THEN e
      ELSE IF p + 1 <= Len(s) /\ s[p + 1] = "#" /\ n > p + 2 /\ n <= Len(s) /\ s[n] = ";"
      THEN n
      ELSE 0
RECURSIVE decodeHtmlEntities(_)
decodeHtmlEntities(text) ==
  LET hits == {p \in 1..Len(text) : EntityEnd(text, p) # 0}
  IN  IF hits = {} THEN text
      ELSE LET p == SetMin(hits)
               e == EntityEnd(text, p)
           IN  Take(text, p - 1) \o EntityValue(SubSeq(text, p, e))
                 \o decodeHtmlEntities(Drop(text, e))

\* Array.prototype.join
RECURSIVE Join(_, _)
Join(parts, sep) ==
  IF parts = <<>> THEN <<>>
  ELSE IF Len(parts) = 1 THEN parts[1]
  ELSE parts[1] \o sep \o Join(Tail(parts), sep)
RECURSIVE CollapseSpace(_)
\* replace(/\s+/g, ' ')
CollapseSpace(s) ==
  LET gaps == {p \in 1..Len(s) : s[p] \in WhiteSpace}
  IN  IF gaps = {} THEN s
      ELSE LET p == SetMin(gaps)
           IN  Take(s, p - 1) \o <<" ">> \o CollapseSpace(Drop(s, RunEnd(s, p, WhiteSpace) - 1))

\* the body of the loop of parseSubtitles on one line: textLines afterwards
PlainLine(textLines, line) ==
  LET trimmed     == trim(line)
      cleanedLine == decodeHtmlEntities(StripTags(trimmed))
  IN  IF \/ trimmed = <<>>
         \/ trimmed = KwWebvtt
         \/ IsDigits(trimmed)
         \/ HasClock(trimmed)
         \/ includes(trimmed, KwArrow)
         \/ StartsWithAt(trimmed, KwNote, 1)
      THEN textLines
      ELSE IF cleanedLine # <<>> THEN Append(textLines, cleanedLine)
      ELSE textLines
RECURSIVE PlainLines(_, _)
PlainLines(textLines, lines) ==
  IF lines = <<>> THEN textLines
  ELSE PlainLines(PlainLine(textLines, Head(lines)), Tail(lines))
parseSubtitles(text) ==
  trim(CollapseSpace(Join(PlainLines(<<>>, split(text, NL)), <<" ">>)))

\* a loop body without the continue of the timestamp branch: the
\* timestamp-range line goes on to be classified as text
TimedLineNoContinue(st, raw) ==
  LET line           == trim(raw)
      timestampMatch == TimestampMatch(line)
      cleanedText    == trim(decodeHtmlEntities(StripTags(line)))
      opened         ==
        IF timestampMatch # <<>>
        THEN [st EXCEPT !.currentTimestamp = parseInt(timestampMatch[1]) * 3600
                                             + parseInt(timestampMatch[2]) * 60
                                             + parseInt(timestampMatch[3]),
                        !.currentTime = timestampMatch[1] \o <<":">> \o timestampMatch[2]
                                        \o <<":">> \o timestampMatch[3]]
        ELSE st
  IN  IF line = <<>> \/ line = KwWebvtt \/ IsDigits(line)
         \/ StartsWithAt(line, KwNote, 1)
      THEN opened
      ELSE IF cleanedText # <<>> /\ opened.currentTime # <<>>
              /\ cleanedText # opened.lastText
      THEN [opened EXCEPT !.segments = Append(@, [timestamp |-> opened.currentTimestamp,
                                                  time |-> opened.currentTime,
                                                  text |-> cleanedText]),
                          !.lastText = cleanedText]
      ELSE opened
\* a loop body without the comparison of the cleaned text with lastText
TimedLineNoDedupe(st, raw) ==
  LET line           == trim(raw)
      timestampMatch == TimestampMatch(line)
      cleanedText    == trim(decodeHtmlEntities(StripTags(line)))
  IN  IF timestampMatch # <<>>
      THEN [st EXCEPT !.currentTimestamp = parseInt(timestampMatch[1]) * 3600
                                           + parseInt(timestampMatch[2]) * 60
                                           + parseInt(timestampMatch[3]),
                      !.currentTime = timestampMatch[1] \o <<":">> \o timestampMatch[2]
                                      \o <<":">> \o timestampMatch[3]]
      ELSE IF line = <<>> \/ line = KwWebvtt \/ IsDigits(line)
              \/ StartsWithAt(line, KwNote, 1)
      THEN st
      ELSE IF cleanedText # <<>> /\ st.currentTime # <<>>
      THEN [st EXCEPT !.segments = Append(@, [timestamp |-> st.currentTimestamp,
                                              time |-> st.currentTime,
                                              text |-> cleanedText]),
                      !.lastText = cleanedText]
      ELSE st
\* a loop body that pushes the cleaned text whether or not a timestamp-range
\* line has been seen
TimedLineUntimed(st, raw) ==
  LET line           == trim(raw)
      timestampMatch == TimestampMatch(line)
      cleanedText    == trim(decodeHtmlEntities(StripTags(line)))
  IN  IF timestampMatch # <<>>
      THEN [st EXCEPT !.currentTimestamp = parseInt(timestampMatch[1]) * 3600
                                           + parseInt(timestampMatch[2]) * 60
                                           + parseInt(timestampMatch[3]),
                      !.currentTime = timestampMatch[1] \o <<":">> \o timestampMatch[2]
                                      \o <<":">> \o timestampMatch[3]]
      ELSE IF line = <<>> \/ line = KwWebvtt \/ IsDigits(line)
              \/ StartsWithAt(line, KwNote, 1)
      THEN st
      ELSE IF cleanedText # <<>> /\ cleanedText # st.lastText
      THEN [st EXCEPT !.segments = Append(@, [timestamp |-> st.currentTimestamp,
                                              time |-> st.currentTime,
                                              text |-> cleanedText]),
                      !.lastText = cleanedText]
      ELSE st

\* the body of the loop of parseSubtitlesWithTimestamps on one line, on the
\* state st of its variables segments, currentTime, currentTimestamp, lastText
TimedLine(st, raw) ==
  LET line           == trim(raw)
      timestampMatch == TimestampMatch(line)
      cleanedText    == trim(decodeHtmlEntities(StripTags(line)))
  IN  IF timestampMatch # <<>>
      THEN [st EXCEPT !.currentTimestamp = parseInt(timestampMatch[1]) * 3600
                                           + parseInt(timestampMatch[2]) * 60
                                           + parseInt(timestampMatch[3]),
                      !.currentTime = timestampMatch[1] \o <<":">> \o timestampMatch[2]
                                      \o <<":">> \o timestampMatch[3]]
      ELSE IF line = <<>> \/ line = KwWebvtt \/ IsDigits(line)
              \/ StartsWithAt(line, KwNote, 1)
      THEN st
      ELSE IF cleanedText # <<>> /\ st.currentTime # <<>> /\ cleanedText # st.lastText
      THEN [st EXCEPT !.segments = Append(@, [timestamp |-> st.currentTimestamp,
                                              time |-> st.currentTime,
                                              text |-> cleanedText]),
                      !.lastText = cleanedText]
      ELSE st
RECURSIVE TimedLines(_, _)
TimedLines(st, lines) ==
  IF lines = <<>> THEN st ELSE TimedLines(TimedLine(st, Head(lines)), Tail(lines))
parseSubtitlesWithTimestamps(text) ==
  TimedLines([segments |-> <<>>, currentTime |-> <<>>, currentTimestamp |-> 0,
              lastText |-> <<>>],
             split(text, NL)).segments

\* lines the caption documents are made of
LineTiming == <<"0", "0", ":", "0", "0", ":", "0", "1", ".", "0", "0", "0", " ", "-", "-", ">", " ", "0", "0", ":", "0", "0", ":", "0", "4", ".", "0", "0", "0">>
LineTimingLater == <<"0", "0", ":", "0", "1", ":", "0", "5", ".", "0", "0", "0", " ", "-", "-", ">", " ", "0", "0", ":", "0", "1", ":", "0", "9", ".", "0", "0", "0">>
LineBlank == <<>>
LineHello == <<"h", "e", "l", "l", "o">>
LineTagged == <<"<", "c", ">", "h", "i", "<", "/", "c", ">", " ", "&", "a", "m", "p", ";", " ", "m", "e">>
LineNumber == <<"4", "2">>
LineWebvtt == <<"W", "E", "B", "V", "T", "T">>
LineNote == <<"N", "O", "T", "E", " ", "x">>
CaptionLines == {LineTiming, LineTimingLater, LineBlank, LineHello, LineTagged,
                 LineNumber, LineWebvtt, LineNote}
\* lines with markup the cleaning has to deal with
LineUnknownEntity == <<"&", "#", "1", "6", "9", ";">>
LineEscapedTag == <<"&", "l", "t", ";", "b", "&", "g", "t", ";">>
LineEmptyTag == <<"<", "b", ">", "<", "/", "b", ">">>
LineClockText == <<"a", "t", " ", "0", "0", ":", "0", "0", ":", "0", "5">>
MarkupLines == {LineTiming, LineHello, LineUnknownEntity, LineEscapedTag,
                LineEmptyTag, LineClockText}
\* the caption documents the parsers are run on
CaptionDocs ==
  {Join(ls, NL) : ls \in SeqsUpTo(CaptionLines, MaxDocLines)
                         \cup SeqsUpTo(MarkupLines, MaxDocLines)}

\* the 'close' callback of the summarize job on the subtitle file it read:
\* const transcript = parseSubtitles(subtitleContent);
\* const segments = parseSubtitlesWithTimestamps(subtitleContent)
ParseSubtitleFile ==
  /\ ~parsed
  /\ parsed' = TRUE
  /\ plainText' = parseSubtitles(content)
  /\ segments' = parseSubtitlesWithTimestamps(content)
  /\ UNCHANGED <<content, oneJobVars, nameVars, pairVars, topicVars, feedVars>>

\* ---------------------------------------------------------- chapter bookmarks
\* lines of a generated summary
MaxSummaryLines == 2
\* segments of a transcript
MaxSegments == 2

\* the character U+2013 (en dash), named since strings here are ASCII
EnDash == "u2013"
\* no match of chapterRegex
NoChapter == [end |-> 0, timeStr |-> <<>>, title |-> <<>>, description |-> <<>>]
\* /[-*]\s*\*\*\[(\d{2}:\d{2}:\d{2})\]\s*([^\*]+)\*\*\s*[-\u2013]\s*(.+?)(?=\n|$)/
\* matched at position p: the index of the last character of the match and
\* the three captures
ChapterMatchAt(s, p) ==
  LET open   == RunEnd(s, p + 1, WhiteSpace)
      t      == open + 3
      d(k)   == t + k <= Len(s) /\ s[t + k] \in Digit
      c(k, ch) == t + k <= Len(s) /\ s[t + k] = ch
      clock  == /\ d(0) /\ d(1) /\ c(2, ":") /\ d(3) /\ d(4) /\ c(5, ":")
                /\ d(6) /\ d(7) /\ c(8, "]")
      b      == t + 9
      stars  == {j \in b..Len(s) : s[j] = "*"}
      star   == IF stars = {} THEN Len(s) + 1 ELSE SetMin(stars)
      dash   == RunEnd(s, star + 2, WhiteSpace)
      breaks == {j \in (dash + 1)..Len(s) : s[j] \in {"\n", "\r"}}
      e      == IF breaks = {} THEN Len(s) + 1 ELSE SetMin(breaks)
  IN  IF /\ s[p] \in {"-", "*"}
         /\ StartsWithAt(s, <<"*", "*", "[">>, open)
         /\ clock
         /\ star > b
         /\ StartsWithAt(s, <<"*", "*">>, star)
         /\ dash <= Len(s) /\ s[dash] \in {"-", EnDash}
         /\ e > dash + 1
         /\ (e = Len(s) + 1 \/ s[e] = "\n")
      THEN [end |-> e - 1, timeStr |-> SubSeq(s, t, t + 7),
            title |-> SubSeq(s, b, star - 1),
            description |-> SubSeq(s, dash + 1, e - 1)]
      ELSE NoChapter
\* timeStr.split(':').map(Number); hours * 3600 + minutes * 60 + seconds
ChapterSeconds(timeStr) ==
  LET hms == split(timeStr, <<":">>)
  IN  parseInt(hms[1]) * 3600 + parseInt(hms[2]) * 60 + parseInt(hms[3])
\* the while loop over chapterRegex.exec(summary), from lastIndex from - 1
RECURSIVE ChapterTopics(_, _)
ChapterTopics(s, from) ==
  LET hits == {p \in from..Len(s) : ChapterMatchAt(s, p).end # 0}
  IN  IF hits = {} THEN <<>>
      ELSE LET match == ChapterMatchAt(s, SetMin(hits))
           IN  <<[title |-> trim(match.title),
                  timestamp |-> ChapterSeconds(match.timeStr),
                  description |-> trim(match.description)]>>
               \o ChapterTopics(s, match.end + 1)

\* String(n) of a positive integer
RECURSIVE ToDigits(_)
ToDigits(n) ==
  LET last == CHOOSE ch \in Digit : DigitVal[ch] = n % 10
  IN  IF n < 10 THEN <<last>> ELSE Append(ToDigits(n \div 10), last)
\* a section count taken from the duration without the lower limit
NumSectionsNoMinimum(duration) ==
  IF duration \div 600 < 10 THEN duration \div 600 ELSE 10
\* Math.min(Math.max(3, Math.floor(duration / 600)), 10)
NumSections(duration) ==
  LET atLeast == IF duration \div 600 > 3 THEN duration \div 600 ELSE 3
  IN  IF atLeast < 10 THEN atLeast ELSE 10
\* sections that start every ten minutes
SectionOffsetTenMinutes(duration, numSections, idx) == 600 * idx
\* Math.floor((duration / numSections) * i): for the integer durations and
\* the section counts 3..10 the rounded quotient times i has the floor of the
\* exact value i * duration / numSections
SectionOffset(duration, numSections, idx) == (duration * idx) \div numSections
\* the fallback: timestampedTranscript[length - 1]?.timestamp || 0, then
\* numSections evenly spaced sections
SectionTopics(segs) ==
  LET duration    == IF segs = <<>> THEN 0
                     ELSE segs[Len(segs)].timestamp
      numSections == NumSections(duration)
  IN  [n \in 1..numSections |->
         [title |-> <<"S", "e", "c", "t", "i", "o", "n", " ">> \o ToDigits(n),
          timestamp |-> SectionOffset(duration, numSections, n - 1),
          description |-> <<"T", "o", "p", "i", "c", " ", "s", "e", "c", "t", "i", "o", "n">>]]
extractTopicsFromSummary(summary, segs) ==
  LET chapters == ChapterTopics(summary, 1)
  IN  IF Len(chapters) = 0 THEN SectionTopics(segs) ELSE chapters

\* lines the generated summaries are made of
LineChapter == <<"-", " ", "*", "*", "[", "0", "0", ":", "0", "5", ":", "3", "0", "]", " ", "I", "n", "t", "r", "o", "*", "*", " ", "-", " ", "H", "i">>
LineChapterEarly == <<"*", " ", "*", "*", "[", "0", "0", ":", "0", "1", ":", "0", "0", "]", " ", "D", "e", "e", "p", "*", "*", " ", "-", " ", "A", "I">>
LineChapterBadTime == <<"-", " ", "*", "*", "[", "0", "0", ":", "9", "9", ":", "9", "9", "]", " ", "B", "a", "d", "*", "*", " ", "-", " ", "x">>
LineChapterNoTime == <<"-", " ", "*", "*", "[", "5", ":", "3", "0", "]", " ", "S", "h", "o", "r", "t", "*", "*", " ", "-", " ", "n", "o">>
LineHeading == <<"#", "#", " ", "C", "h", "a", "p", "t", "e", "r", "s">>
SummaryLines == {LineChapter, LineChapterEarly, LineChapterBadTime,
                 LineChapterNoTime, LineHeading}
Summaries == {Join(ls, NL) : ls \in SeqsUpTo(SummaryLines, MaxSummaryLines)}
\* offsets of the segments of the transcripts
SegmentOffsets == {0, 1800, 4210, 7000}
Transcripts ==
  {[n \in 1..Len(ts) |-> [timestamp |-> ts[n]]] :
     ts \in SeqsUpTo(SegmentOffsets, MaxSegments)}

\* const topics = extractTopicsFromSummary(summaryText, timestampedTranscript)
ExtractTopics ==
  /\ ~extracted
  /\ extracted' = TRUE
  /\ topics' = extractTopicsFromSummary(summaryText, timestampedTranscript)
  /\ UNCHANGED <<summaryText, timestampedTranscript, oneJobVars, nameVars,
                 pairVars, captionVars, feedVars>>

\* --------------------------------------------------------- line classifier
\* lines handed to the classifier in one run
MaxFeed == 3

\* a sequence-position line whose total is zero
LinePlaylistOfNone == <<"[", "d", "o", "w", "n", "l", "o", "a", "d", "]", " ", "D", "o", "w", "n", "l", "o", "a", "d", "i", "n", "g", " ", "i", "t", "e", "m", " ", "3", " ", "o", "f", " ", "0">>
FeedLines == ToolLines \cup {LinePlaylistOfNone}

\* the closure variables when the tool's first line arrives: start() has
\* declared them, sent 'Starting download...' and spawned the tool
FeedStart == OnDownloadStart(FreshJob, TRUE)
\* the job state the next callback meets
FedLast == IF fedStates = <<>> THEN FeedStart ELSE fedStates[Len(fedStates)]
\* 'close' has run: it left one state more than there are lines
FeedClosed == Len(fedStates) > Len(fedLines)

\* ytdlpProcess.stdout.on('data') with a chunk that is one whole line
FeedLine(line) ==
  /\ ~FeedClosed
  /\ Len(fedLines) < MaxFeed
  /\ fedLines' = Append(fedLines, line)
  /\ fedStates' = Append(fedStates, OnStdoutData(FedLast, line))
  /\ UNCHANGED <<oneJobVars, nameVars, pairVars, captionVars, topicVars>>

\* ytdlpProcess.on('close') after the lines
FeedClose(code) ==
  /\ ~FeedClosed
  /\ fedStates' = Append(fedStates, OnDownloadClose(FedLast, code))
  /\ UNCHANGED <<fedLines, oneJobVars, nameVars, pairVars, captionVars, topicVars>>

\* ------------------------------------------------------------ specification
\* the parts of the state a specification does not use
JobIdle == InitJob({"download"}) /\ toolExists
NamesIdle == now = 0 /\ runs = <<>> /\ disk = {}
PairIdle == peers = <<>> /\ peerLog = <<>>
\* the empty document, parsed
CaptionIdle == content = <<>> /\ parsed = TRUE /\ segments = <<>> /\ plainText = <<>>

\* an empty summary and transcript, extracted
TopicsIdle ==
  /\ summaryText = <<>> /\ timestampedTranscript = <<>>
  /\ extracted = TRUE /\ topics = <<>>

\* no line handed to the classifier
FeedIdle == fedLines = <<>> /\ fedStates = <<>>

Init == InitJob(JobKinds) /\ NamesIdle /\ PairIdle /\ CaptionIdle /\ TopicsIdle /\ FeedIdle

NextDownload ==
  \/ \E exists \in BOOLEAN : DownloadStart(exists)
  \/ \E line \in ToolLines : ToolWrite(line)
  \/ \E k \in 1..Len(stdoutRest) : StdoutData(k)
  \/ \E code \in ExitCodes : DownloadClose(code)
  \/ DownloadError
  \/ ClientCancel

NextClip ==
  \/ \E mkTemp, mkOutput \in BOOLEAN : ClipStart(mkTemp, mkOutput)
  \/ \E saved \in BOOLEAN, rm \in RmOutcomes : ClipUploaded(saved, rm)
  \/ \E code \in ExitCodes, rm \in RmOutcomes : FfmpegClose(code, rm)
  \/ \E rm \in RmOutcomes : FfmpegError(rm)

NextSummarize ==
  \/ \E mkTemp, exists \in BOOLEAN, rm \in RmOutcomes : SummarizeStart(mkTemp, exists, rm)
  \/ \E code \in ExitCodes, found \in SubtitleOutcomes, length \in TranscriptLengths,
        rm \in RmOutcomes :
       SummarizeClose(code, found, length, rm)
  \/ \E secret \in SecretOutcomes, rm \in RmOutcomes : SecretReturn(secret, rm)
  \/ \E summarized \in BOOLEAN, rm \in RmOutcomes : SummarizeReturn(summarized, rm)
  \/ \E crash \in BOOLEAN : SummarizeError(crash)

NextThumbnail ==
  \/ \E mkTemp, hasFile \in BOOLEAN, run \in ThumbnailRuns, rm \in RmOutcomes :
       ThumbnailStart(mkTemp, hasFile, run, rm)
  \/ \E saved \in BOOLEAN, run \in ThumbnailRuns, rm \in RmOutcomes :
       ThumbnailUploaded(saved, run, rm)

NextTool == \E text \in StderrTexts : StderrData(text)

Next == NextDownload \/ NextClip \/ NextSummarize \/ NextThumbnail \/ NextTool

\* every job kind; stdout chunks end at line ends
Spec == Init /\ [][Next]_vars

\* the download job with stdout chunks cut anywhere
InitChunks ==
  /\ InitJob({"download"}) /\ toolExists
  /\ NamesIdle /\ PairIdle /\ CaptionIdle /\ TopicsIdle /\ FeedIdle
NextChunks == NextDownload \/ \E k \in 1..Len(stdoutRest) : StdoutSplit(k)
SpecChunks == InitChunks /\ [][NextChunks]_vars

\* two jobs that take their file names from the clock
InitNames ==
  /\ JobIdle /\ PairIdle /\ CaptionIdle /\ TopicsIdle /\ FeedIdle
  /\ now = 0
  /\ runs \in [RunIds -> IdleRuns]
  /\ disk = {}
NextNames ==
  \/ Tick
  \/ \E j \in RunIds : RunStart(j)
  \/ \E j \in RunIds : RunClip(j)
  \/ \E j \in RunIds : RunFinish(j)
SpecNames == InitNames /\ [][NextNames]_vars

\* two download jobs whose callbacks interleave
InitPair ==
  /\ JobIdle /\ NamesIdle /\ CaptionIdle /\ TopicsIdle /\ FeedIdle
  /\ peers = [j \in PeerIds |-> FreshJob]
  /\ peerLog = [j \in PeerIds |-> <<>>]
NextPair ==
  \/ \E j \in PeerIds : PeerStart(j)
  \/ \E j \in PeerIds, line \in PeerLines : PeerData(j, line)
  \/ \E j \in PeerIds, code \in ExitCodes : PeerClose(j, code)
SpecPair == InitPair /\ [][NextPair]_vars

\* the two caption parsers run on a caption document
InitCaption ==
  /\ JobIdle /\ NamesIdle /\ PairIdle /\ TopicsIdle /\ FeedIdle
  /\ content \in CaptionDocs
  /\ parsed = FALSE
  /\ segments = <<>>
  /\ plainText = <<>>
NextCaption == ParseSubtitleFile
SpecCaption == InitCaption /\ [][NextCaption]_vars

\* the chapter bookmarks extracted from a generated summary and a transcript
InitTopics ==
  /\ JobIdle /\ NamesIdle /\ PairIdle /\ CaptionIdle /\ FeedIdle
  /\ summaryText \in Summaries
  /\ timestampedTranscript \in Transcripts
  /\ extracted = FALSE
  /\ topics = <<>>
NextTopics == ExtractTopics
SpecTopics == InitTopics /\ [][NextTopics]_vars

\* the line classifier of a download job, handed whole lines one at a time
InitFeed ==
  /\ JobIdle /\ NamesIdle /\ PairIdle /\ CaptionIdle /\ TopicsIdle
  /\ FeedIdle
NextFeed ==
  \/ \E line \in FeedLines : FeedLine(line)
  \/ \E code \in ExitCodes : FeedClose(code)
SpecFeed == InitFeed /\ [][NextFeed]_vars

\* ------------------------------------------------------------------ claims
IsTerminal(e) == e.status \in {"completed", "error"}
\* positions of the terminal events among the enqueued events
TerminalIdx == {n \in 1..Len(events) : IsTerminal(events[n])}
\* the job has nothing left to run: its tool process closed or errored, or
\* its handler returned, threw or was torn down
DownloadOver == pc = "returned" \/ closeEmitted \/ errorEmitted
JobOver ==
  CASE kind = "download"  -> DownloadOver
    [] kind = "clip"      -> pc \in {"done", "thrown"}
    [] kind = "summarize" -> pc \in {"returned", "done", "thrown", "rejected", "crashed"}
    [] kind = "thumbnail" -> pc \in {"responded", "failed", "thrown"}
\* a parsed value that is a number
IsNumber(p) == p # NaN

\* C1: in a download job, under every interleaving of the 'data', 'error' and
\* 'close' callbacks, at most one terminal event is enqueued, no event follows
\* it, and once the process has closed or errored (the subscriber still
\* listening) exactly one terminal event has been enqueued.
C1_DownloadOneTerminal ==
  kind = "download" =>
    /\ Cardinality(TerminalIdx) <= 1
    /\ \A n \in TerminalIdx : n = Len(events)
    /\ (DownloadOver /\ stream # "cancelled") => Cardinality(TerminalIdx) = 1
\* 'error' then 'close' have both fired, and a line that would emit an event
\* was handed to 'data' after the terminal event: only the one terminal event
\* follows the starting event
C1_Witness ==
  /\ kind = "download"
  /\ errorEmitted /\ closeEmitted
  /\ output = <<LineMerging>> /\ stdoutRest = <<>>
  /\ Len(events) = 2
  /\ events[2].status = "error"

\* C2: a clip job with at least one clip enqueues at most one terminal event,
\* exactly one when start() has finished, and never an 'error' event after a
\* 'completed' event.
C2_ClipOneTerminal ==
  (kind = "clip" /\ Len(clips) >= 1) =>
    /\ Cardinality(TerminalIdx) <= 1
    /\ (pc = "done" /\ stream # "cancelled") => Cardinality(TerminalIdx) = 1
    /\ \A m, n \in 1..Len(events) :
         (m < n /\ events[m].status = "completed") => events[n].status # "error"

\* C3: every streaming job that is over and was not cancelled by its
\* subscriber has delivered a terminal event.
C3_TerminalDelivered ==
  (kind \in StreamKinds /\ JobOver /\ stream # "cancelled") => TerminalIdx # {}

\* C4: every 'completed' event has progress 100; every 'error' event has
\* progress 0 and a non-empty details text.
C4_TerminalShape ==
  \A n \in 1..Len(events) :
    /\ events[n].status = "completed" => events[n].progress = Pct(100)
    /\ events[n].status = "error" =>
         (events[n].progress = Pct(0) /\ events[n].details # <<>>)
\* a job that has enqueued a 'completed' and an 'error' event
C4_Witness ==
  \E m, n \in 1..Len(events) :
    events[m].status = "completed" /\ events[n].status = "error"


\* C6: every numeric progress value of an event lies within [0,100].
C6_ProgressInRange ==
  \A n \in 1..Len(events) :
    IsNumber(events[n].progress) =>
      (Pct(0) <= events[n].progress /\ events[n].progress <= Pct(100))

\* C7: the download classifier emits at most one event per line: while the
\* stream is open, the events after the starting event are no more than the
\* lines handed to the 'data' callback.
C7_OneEventPerLine ==
  (kind = "download" /\ pc = "spawned" /\ ~isClosed /\ stream = "readable"
     /\ stdoutRest = <<>>)
  => Len(events) - 1 <= Len(output)

\* the token before '%' is a number: digits with at most one dot
WellFormedNumber(t) ==
  /\ \E n \in 1..Len(t) : t[n] \in Digit
  /\ Cardinality({n \in 1..Len(t) : t[n] = "."}) <= 1
\* a line of the percentage rule whose token is not a number
MalformedPercentLine(line) ==
  /\ includes(line, KwDownload)
  /\ PercentMatch(line) # <<>>
  /\ ~WellFormedNumber(PercentMatch(line)[1])

\* C5: in a download job whose output lines carry well-formed percentages of
\* at most 100, the progress values of the non-terminal events never decrease.
C5_ProgressMonotonic ==
  (/\ kind = "download"
   /\ \A n \in 1..Len(output) : ~MalformedPercentLine(output[n])
   /\ \A n \in 1..Len(events) : /\ IsNumber(events[n].progress)
                                /\ events[n].progress <= Pct(100))
  => \A m, n \in 1..Len(events) :
       (m < n /\ ~IsTerminal(events[m]) /\ ~IsTerminal(events[n]))
       => events[m].progress <= events[n].progress

\* C8: download lines whose percentage token is malformed are ignored: after
\* only such lines no event beyond the starting event has been enqueued and
\* the stored percentage is still 0.
C8_MalformedIgnored ==
  (/\ kind = "download" /\ pc = "spawned" /\ ~isClosed /\ stream = "readable"
   /\ stdoutRest = <<>>
   /\ \A n \in 1..Len(output) : MalformedPercentLine(output[n]))
  => (Len(events) = 1 /\ currentPercentage = 0)

\* the job state in which the first chunk finds a download job
AfterDownloadStart ==
  [Job EXCEPT !.events = <<events[1]>>, !.currentPercentage = 0,
              !.playlistIndex = 0, !.playlistTotal = 0, !.currentTitle = <<>>]

\* C9: however stdout was cut into chunks, once all output (lines with
\* well-formed percentages) has been handed to the 'data' callback the
\* enqueued events are those of classifying each complete line in turn.
C9_ChunkingEquivalent ==
  (/\ kind = "download" /\ pc = "spawned" /\ ~isClosed /\ stream = "readable"
   /\ stdoutRest = <<>>
   /\ \A n \in 1..Len(output) : ~MalformedPercentLine(output[n]))
  => events = ProcessLines(AfterDownloadStart, output).events

\* C10: once the subscriber has cancelled the stream, the job's tool process
\* does not run to completion: it never closes with exit status 0.
C10_CancelTerminatesProcess ==
  ~(stream = "cancelled" /\ procs > 0 /\ closeEmitted /\ exitCode = <<0>>)

\* C11: once the subscriber of a clip or summarize job has cancelled while the
\* tool process of the job is still running, the job is over and its temp
\* directory has been removed.
C11_CancelCleansUp ==
  (kind \in {"clip", "summarize"} /\ stream = "cancelled" /\ alive > 0) =>
    (JobOver /\ tempDir = "removed")

\* C12: a summarize, clip or thumbnail job that is over and had created its
\* temp directory has removed it.
C12_TempDirRemoved ==
  (kind \in {"summarize", "clip", "thumbnail"} /\ JobOver /\ tempDir # "absent") =>
    tempDir = "removed"

\* C13: in a clip job at most one ffmpeg process is alive; a further process
\* is spawned only by the step in which the latest one, not errored, closes
\* with status 0; after a process failed (non-zero or null status, or
\* 'error') no process is spawned.
C13_OneFfmpegAtATime ==
  [][kind = "clip" =>
       /\ alive' <= 1
       /\ procs' # procs =>
            /\ procs' = procs + 1
            /\ procs > 0 => (~closeEmitted /\ ~errorEmitted /\ exitCode' = <<0>>)
       /\ (errorEmitted \/ (closeEmitted /\ exitCode # <<0>>)) => procs' = procs]_vars
\* the second ffmpeg process runs after the first one closed with status 0
C13_Witness ==
  /\ kind = "clip"
  /\ procs = 2 /\ alive = 1
  /\ Len(outputPaths) = 1

\* C16: when the executable of a streaming job is absent, the job spawns no
\* process, and once its handler has returned it has enqueued exactly one
\* terminal event, an 'error', as its last event.
C16_ExistenceChecked ==
  (kind \in StreamKinds /\ ~toolExists) =>
    /\ procs = 0
    /\ pc = "returned" =>
         /\ Cardinality(TerminalIdx) = 1
         /\ events[Len(events)].status = "error"

\* a tool process of the job has failed: its latest process emitted 'error'
\* and has not closed, or closed with a status other than 0
ProcessFailed ==
  \/ errorEmitted /\ ~closeEmitted
  \/ closeEmitted /\ exitCode # <<0>>
\* C17: a streaming job that enqueued 'completed' has no live process and its
\* latest process closed with status 0; after a tool process failed there is
\* no 'completed' event and, unless the subscriber cancelled, there is an
\* 'error' terminal event.
C17_CompletedOnlyOnSuccess ==
  kind \in StreamKinds =>
    /\ (\E n \in 1..Len(events) : events[n].status = "completed") =>
         (alive = 0 /\ (procs > 0 => (closeEmitted /\ exitCode = <<0>>)))
    /\ ProcessFailed =>
         /\ \A n \in 1..Len(events) : events[n].status # "completed"
         /\ stream # "cancelled" =>
              \E n \in 1..Len(events) : events[n].status = "error"

RECURSIVE Flatten(_)
\* the chunks of a stream as one text
Flatten(chunks) ==
  IF chunks = <<>> THEN <<>> ELSE Head(chunks) \o Flatten(Tail(chunks))
\* the literal texts after which an error message interpolates ${code} and
\* ${stderr}
ExitCodeLabels == {"Download failed with exit code: ", "ffmpeg exited with code "}
StderrLabels == {": "}
\* the event's details interpolate the exit status
ReportsCode(e, code) ==
  \E k \in 1..Len(e.details) :
    e.details[k].label \in ExitCodeLabels /\ e.details[k].text = code
\* the event's details interpolate a text whose end is the end of the given text
ReportsTail(e, text) ==
  \E k \in 1..Len(e.details) :
    /\ e.details[k].label \in StderrLabels
    /\ LET t == e.details[k].text
       IN  \E n \in 1..Len(text) :
             n <= Len(t) /\ Drop(t, Len(t) - n) = Drop(text, Len(text) - n)
\* C18: after the tool process of a streaming job closed with a non-zero
\* status (the subscriber still listening, no 'error' of the process), the
\* job's 'error' event carries the exit status and, when the process wrote
\* to stderr, the tail of what it wrote.
C18_FailureReported ==
  (/\ kind \in StreamKinds
   /\ closeEmitted /\ ~errorEmitted
   /\ exitCode \notin {<<0>>, <<>>}
   /\ stream # "cancelled") =>
    \E n \in TerminalIdx :
      /\ events[n].status = "error"
      /\ ReportsCode(events[n], exitCode)
      /\ errOutput # <<>> => ReportsTail(events[n], Flatten(errOutput))

\* C19: in a download job every line handed to 'data' has produced its events
\* on the stream, in order, and once the process has closed or errored a
\* terminal event is on the stream, whether or not an enqueue failed before.
C19_NoEventDropped ==
  kind = "download" =>
    /\ (/\ pc = "spawned" /\ stdoutRest = <<>>
        /\ ~closeEmitted /\ ~errorEmitted
        /\ \A n \in 1..Len(output) : ~MalformedPercentLine(output[n])) =>
         events = ProcessLines([AfterDownloadStart EXCEPT !.isClosed = FALSE,
                                                         !.stream = "readable"],
                               output).events
    /\ DownloadOver => TerminalIdx # {}

\* C14: two running jobs have different temp directories, the temp directory
\* of a running job exists (no other job removed it), and no output file name
\* is written twice, by two jobs or by two clips of one job.
C14_NamesPrivate ==
  runs # <<>> =>
    /\ \A a, b \in RunIds :
         (a # b /\ runs[a].pc = "running" /\ runs[b].pc = "running") =>
           runs[a].tempDir # runs[b].tempDir
    /\ \A a \in RunIds : runs[a].pc = "running" => runs[a].tempDir[1] \in disk
    /\ \A a, b \in RunIds :
         \A m \in 1..Len(runs[a].outputs), n \in 1..Len(runs[b].outputs) :
           (a # b \/ m # n) => runs[a].outputs[m] # runs[b].outputs[n]

IsTiming(line) == TimestampMatch(trim(line)) # <<>>
\* the last line of the block that starts at line k: the lines after k up to
\* the next blank or timestamp-range line belong to it
BlockEnd(lines, k) ==
  SetMax({m \in k..Len(lines) :
            \A n \in (k + 1)..m : trim(lines[n]) # <<>> /\ ~IsTiming(lines[n])})
RECURSIVE BlocksFrom(_, _)
BlocksFrom(lines, k) ==
  IF k > Len(lines) THEN <<>>
  ELSE IF trim(lines[k]) = <<>> THEN BlocksFrom(lines, k + 1)
  ELSE <<SubSeq(lines, k, BlockEnd(lines, k))>>
         \o BlocksFrom(lines, BlockEnd(lines, k) + 1)
\* the blocks of a document: each starts at a timestamp-range line or after
\* a blank line
Blocks(lines) == BlocksFrom(lines, 1)
\* a well-formed cue: a timestamp-range line followed by its text lines
IsCue(block) == IsTiming(block[1])
\* the header line of the file or a one-line comment
IsHeader(block) ==
  Len(block) = 1 /\ (trim(block[1]) = KwWebvtt \/ StartsWithAt(trim(block[1]), KwNote, 1))
\* the cues of a document, in order
Cues(lines) == SelectSeq(Blocks(lines), IsCue)
\* the document is made of well-formed cues (and headers) only
WellFormedCues(lines) ==
  \A k \in 1..Len(Blocks(lines)) : IsCue(Blocks(lines)[k]) \/ IsHeader(Blocks(lines)[k])
\* no two adjacent cues have the same text
NoAdjacentDuplicate(lines) ==
  \A k \in 1..(Len(Cues(lines)) - 1) : Tail(Cues(lines)[k]) # Tail(Cues(lines)[k + 1])

\* the text of a line after the cleaning of the parser
CleanedText(line) == trim(decodeHtmlEntities(StripTags(trim(line))))
\* a line the parser takes as text: not blank, not a header, a bare number or
\* a NOTE line, and not empty once cleaned
IsTextLine(line) ==
  /\ trim(line) \notin {<<>>, KwWebvtt}
  /\ ~IsDigits(trim(line))
  /\ ~StartsWithAt(trim(line), KwNote, 1)
  /\ CleanedText(line) # <<>>
\* every cue has exactly one line of text, and adjacent cues differ in it
OneLineCues(lines) ==
  /\ \A k \in 1..Len(Cues(lines)) :
       Len(Cues(lines)[k]) = 2 /\ IsTextLine(Cues(lines)[k][2])
  /\ \A k \in 1..(Len(Cues(lines)) - 1) :
       CleanedText(Cues(lines)[k][2]) # CleanedText(Cues(lines)[k + 1][2])

\* C20 (as claimed): for a caption document made of N well-formed cues no
\* two adjacent of which have the same text, parseSubtitlesWithTimestamps
\* returns N segments, whatever the text lines of the cues.
C20_SegmentPerCue ==
  (/\ parsed
   /\ WellFormedCues(split(content, NL))
   /\ NoAdjacentDuplicate(split(content, NL))) =>
    Len(segments) = Len(Cues(split(content, NL)))
\* C20 (amended): for a caption document made of N well-formed cues that
\* each have exactly one line of text (not a bare number, a header or a NOTE
\* line, not empty once cleaned), adjacent cues differing in their cleaned
\* text, parseSubtitlesWithTimestamps returns N segments.
C20_SegmentPerOneLineCue ==
  (/\ parsed
   /\ WellFormedCues(split(content, NL))
   /\ OneLineCues(split(content, NL))) =>
    Len(segments) = Len(Cues(split(content, NL)))
\* a document of two one-line cues has been parsed into two segments
C20_Witness ==
  /\ parsed
  /\ content = Join(<<LineTiming, LineHello, LineTimingLater, LineTagged>>, NL)
  /\ Len(segments) = 2

\* C21: the segments of every parsed caption document are in the order of
\* their offsets: no segment has a smaller timestamp than the one before it.
C21_SegmentsOrdered ==
  parsed =>
    \A n \in 2..Len(segments) : segments[n - 1].timestamp <= segments[n].timestamp

\* C22: no two adjacent segments of a parsed caption document have the same
\* text, whatever lines stand between the repeated text lines.
C22_NoAdjacentDuplicate ==
  parsed =>
    \A n \in 2..Len(segments) : segments[n - 1].text # segments[n].text
\* the text of a cue is repeated after a line that cleans to empty text, and
\* after the timestamp line of the next cue: one segment each time
C22_Witness ==
  /\ parsed
  /\ content \in {Join(<<LineTiming, LineHello, LineEmptyTag, LineHello>>, NL),
                  Join(<<LineTiming, LineHello, LineTimingLater, LineHello>>, NL)}
  /\ Len(segments) = 1
  /\ segments[1].text = LineHello

\* a text holds an HTML tag (a match of /<[^>]+>/)
HasTag(s) == \E p \in 1..Len(s) : TagEnd(s, p) # 0
\* a text holds a named or numeric entity (a match of /&[a-z]+;|&#\d+;/i)
HasEntity(s) == \E p \in 1..Len(s) : EntityEnd(s, p) # 0
\* C23: the plain text of every parsed caption document holds no HTML tag and
\* no named or numeric entity.
C23_PlainTextClean == parsed => (~HasTag(plainText) /\ ~HasEntity(plainText))

\* the cleaned text lines parseSubtitlesWithTimestamps accepts when no line
\* is suppressed as a duplicate of the last accepted one
RECURSIVE AcceptedLines(_, _)
AcceptedLines(st, lines) ==
  IF lines = <<>> THEN st
  ELSE AcceptedLines(TimedLine([st EXCEPT !.lastText = <<>>], Head(lines)), Tail(lines))
AcceptedTexts(text) ==
  LET segs == AcceptedLines([segments |-> <<>>, currentTime |-> <<>>,
                             currentTimestamp |-> 0, lastText |-> <<>>],
                            split(text, NL)).segments
  IN  [n \in 1..Len(segs) |-> segs[n].text]
\* C24: the plain text of every parsed caption document is the cleaned text
\* lines the timestamped parser accepts before duplicate suppression, joined
\* by single spaces.
C24_SameClassification ==
  parsed => plainText = trim(CollapseSpace(Join(AcceptedTexts(content), <<" ">>)))

\* the offset of the last segment of the transcript, 0 when it has none
LastOffset ==
  IF timestampedTranscript = <<>> THEN 0
  ELSE timestampedTranscript[Len(timestampedTranscript)].timestamp
\* the chapter bullets of the summary, line by line
ChapterLines ==
  LET lines == split(summaryText, NL)
  IN  {ChapterMatchAt(lines[n], 1) : n \in {k \in 1..Len(lines) : lines[k] # <<>>}}
        \ {NoChapter}
\* the minutes and seconds fields of a matched time are at most 59
WellFormedTime(timeStr) ==
  parseInt(SubSeq(timeStr, 4, 5)) <= 59 /\ parseInt(SubSeq(timeStr, 7, 8)) <= 59
FallbackDescription == <<"T", "o", "p", "i", "c", " ", "s", "e", "c", "t", "i", "o", "n">>

\* C25: when the summary holds no chapter bullet the result is
\* n = clamp(floor(d / 600), 3, 10) markers, d the offset of the last segment,
\* marker k (from 0) at floor(k * d / n) with title 'Section k+1' and the
\* fixed description, so 0, 600, 1200 for d = 1800; when a bullet matched,
\* the result holds one marker per bullet and no fallback marker.
C25_FallbackSections ==
  extracted =>
    LET d == LastOffset
        q == d \div 600
        n == IF q < 3 THEN 3 ELSE IF q > 10 THEN 10 ELSE q
    IN  /\ ChapterLines = {} =>
             /\ Len(topics) = n
             /\ \A k \in 1..n :
                  /\ topics[k].timestamp = ((k - 1) * d) \div n
                  /\ topics[k].title = <<"S", "e", "c", "t", "i", "o", "n", " ">> \o ToDigits(k)
                  /\ topics[k].description = FallbackDescription
             /\ d = 1800 =>
                  [k \in 1..Len(topics) |-> topics[k].timestamp] = <<0, 600, 1200>>
        /\ ChapterLines # {} =>
             /\ Len(topics) = Len(ChapterTopics(summaryText, 1))
             /\ \A k \in 1..Len(topics) : topics[k].description # FallbackDescription
\* a summary without bullets and a transcript ending at 1800 s gave three
\* sections, the last at 1200 s
C25_Witness ==
  /\ extracted
  /\ summaryText = LineHeading
  /\ LastOffset = 1800
  /\ Len(topics) = 3
  /\ topics[3].timestamp = 1200

\* C26: the markers of every extraction are in ascending order of offset.
C26_TopicsOrdered ==
  extracted =>
    \A k \in 2..Len(topics) : topics[k - 1].timestamp <= topics[k].timestamp

\* C27: a chapter bullet whose time has minutes or seconds above 59 gives no
\* marker, and every bullet with a well-formed time gives its marker.
C27_MalformedTimeRejected ==
  extracted =>
    \A m \in ChapterLines :
      IF WellFormedTime(m.timeStr)
      THEN \E k \in 1..Len(topics) :
             /\ topics[k].title = trim(m.title)
             /\ topics[k].timestamp = ChapterSeconds(m.timeStr)
      ELSE \A k \in 1..Len(topics) : topics[k].title # trim(m.title)

\* C28: every extraction returns at least one marker, and every marker's
\* offset is a non-negative integer.
C28_TopicsNeverEmpty ==
  extracted =>
    /\ Len(topics) >= 1
    /\ \A k \in 1..Len(topics) : topics[k].timestamp \in Nat
\* an empty summary and an empty transcript gave three sections at offset 0
C28_Witness ==
  /\ extracted
  /\ summaryText = <<>>
  /\ timestampedTranscript = <<>>
  /\ Len(topics) = 3
  /\ \A k \in 1..3 : topics[k].timestamp = 0

\* the events of the job hold an 'error' terminal event and no 'completed'
EndedInError ==
  /\ \A n \in 1..Len(events) : events[n].status # "completed"
  /\ stream # "cancelled" => \E n \in TerminalIdx : events[n].status = "error"

\* C29: in a summarize job whose plain-text transcript has fewer than 100
\* characters the summarization is never invoked, no 'completed' event is
\* enqueued and (the subscriber still listening) an 'error' terminal event is.
C29_ShortTranscriptFails ==
  (kind = "summarize" /\ transcript # <<>> /\ transcript[1] < 100) =>
    (calls = <<>> /\ EndedInError)
\* a transcript of 99 characters was read and the subscriber got the error
C29_Witness ==
  /\ kind = "summarize"
  /\ transcript = <<99>>
  /\ calls = <<>>
  /\ stream = "closed"
  /\ events[Len(events)].status = "error"

\* the job called the summarization without the project configuration, or its
\* credential retrieval failed
ConfigurationFailed ==
  \/ ~projectId /\ calls # <<>>
  \/ credentials = "failed"
\* C30: in a summarize job whose project configuration is missing or whose
\* credential retrieval failed the model is never called, no 'completed'
\* event is enqueued and (the subscriber still listening) an 'error' terminal
\* event is.
C30_ConfigurationErrorAborts ==
  (kind = "summarize" /\ ConfigurationFailed) =>
    (\A n \in 1..Len(calls) : calls[n] # "generateContent") /\ EndedInError
\* the secret could not be read and the subscriber got the error
C30_Witness ==
  /\ kind = "summarize"
  /\ credentials = "failed"
  /\ calls = <<"summarizeWithVertexAI", "accessSecretVersion">>
  /\ stream = "closed"
  /\ events[Len(events)].status = "error"

\* the events the classifier has sent after its k-th line, 'Starting
\* download...' of start() left out
FedEvents(k) ==
  SubSeq(fedStates[k].events, Len(FeedStart.events) + 1, Len(fedStates[k].events))
HasPart(e, label, text) ==
  \E n \in 1..Len(e.details) : e.details[n] = Part(label, text)
ExampleLines == <<LineDestination, LinePercent, LineMerging>>
ExampleFed ==
  /\ Len(fedLines) = 3
  /\ Len(fedStates) >= 3
  /\ \A k \in 1..3 : fedLines[k] = ExampleLines[k]

\* C32: handed, from its initial state, the Destination line of foo.mp4, the
\* line '[download]  45.2% of 10.00MiB at 1.20MiB/s ETA 00:08' and
\* '[ffmpeg] Merging formats', the classifier sends exactly three events, one
\* per line: the first names the file, the second has progress 45.2 and
\* details with the size, the rate and the ETA, the third has progress 95
\* and announces the processing of the video.
C32_ExampleRun ==
  ExampleFed =>
    /\ \A k \in 1..3 : Len(FedEvents(k)) = k
    /\ LET e == FedEvents(3)
       IN  /\ HasPart(e[1], "title", <<"f", "o", "o", ".", "m", "p", "4">>)
           /\ 10 * e[2].progress = Pct(452)
           /\ HasPart(e[2], "size", <<"1", "0", ".", "0", "0", "M", "i", "B">>)
           /\ HasPart(e[2], "speed", <<"1", ".", "2", "0", "M", "i", "B", "/", "s">>)
           /\ HasPart(e[2], "ETA", <<"0", "0", ":", "0", "8">>)
           /\ e[3].progress = Pct(95)
           /\ e[3].status = "Processing video"
           /\ \A n \in 1..3 : ~IsTerminal(e[n])
C32_Witness == ExampleFed /\ Len(FedEvents(3)) = 3

\* the rule of the handler that a line makes send an event
IsPercentLine(line) ==
  includes(line, KwDownload) /\ includes(line, KwPercent) /\ PercentMatch(line) # <<>>
IsProcessingLine(line) == includes(line, KwMerging) \/ includes(line, KwFfmpeg)
IsDestinationLine(line) == includes(line, KwDownloadDestination)
IsPlaylistLine(line) ==
  /\ includes(line, KwDownloadingVideoTag) \/ includes(line, KwDownloadingItem)
  /\ SeqPosMatch(line) # <<>>
\* the job state the k-th line met
FedBefore(k) == IF k = 1 THEN FeedStart ELSE fedStates[k - 1]
\* the events the k-th line made the classifier send
LineEvents(k) ==
  SubSeq(fedStates[k].events, Len(FedBefore(k).events) + 1, Len(fedStates[k].events))

\* C34: a post-processing line pins the percentage to 95: the event it sends
\* has progress 95, and so has every event a later Destination or
\* sequence-position line sends while no percentage line has come in between.
C34_ProcessingPinsPercentage ==
  \A k \in 1..Len(fedLines) :
    IsProcessingLine(fedLines[k]) =>
      /\ \E n \in 1..Len(LineEvents(k)) : LineEvents(k)[n].progress = Pct(95)
      /\ \A j \in (k + 1)..Len(fedLines) :
           (\A m \in (k + 1)..j : ~IsPercentLine(fedLines[m])) =>
             \A n \in 1..Len(LineEvents(j)) : LineEvents(j)[n].progress = Pct(95)
\* the first part on its own: the event of a post-processing line has progress 95
T34_ProcessingEvent ==
  \A k \in 1..Len(fedLines) :
    IsProcessingLine(fedLines[k]) =>
      \E n \in 1..Len(LineEvents(k)) : LineEvents(k)[n].progress = Pct(95)

\* the percentage the most recent percentage line before the k-th line set,
\* 0 when there is none
LastPercentage(k) ==
  LET before == {m \in 1..(k - 1) : IsPercentLine(fedLines[m])}
  IN  IF before = {} THEN 0
      ELSE parseFloat(PercentMatch(fedLines[SetMax(before)])[1])
\* the fields of the job state c other than its events that differ from d's
ChangedFields(c, d) == {f \in DOMAIN c \ {"events"} : c[f] # d[f]}
FrameOfLine(k) ==
  /\ fedStates[k].currentPercentage = FedBefore(k).currentPercentage
  /\ LineEvents(k) # <<>>
  /\ LineEvents(k)[1].progress = LastPercentage(k)
  /\ IsDestinationLine(fedLines[k]) =>
       ChangedFields(fedStates[k], FedBefore(k)) \subseteq {"currentTitle"}
  /\ IsPlaylistLine(fedLines[k]) =>
       ChangedFields(fedStates[k], FedBefore(k)) \subseteq {"playlistIndex", "playlistTotal"}

\* C35: a sequence-position line and a Destination line leave the stored
\* percentage unchanged; the event each sends carries the percentage of the
\* most recent percentage line (0 when there is none); a Destination line
\* changes only the current title, a sequence-position line only the
\* playlist index and total.
C35_PercentageFrame ==
  \A k \in 1..Len(fedLines) :
    (IsDestinationLine(fedLines[k]) \/ IsPlaylistLine(fedLines[k])) => FrameOfLine(k)
\* the same for the lines that no second rule of the handler matches
T35_SingleRuleFrame ==
  \A k \in 1..Len(fedLines) :
    /\ IsDestinationLine(fedLines[k]) \/ IsPlaylistLine(fedLines[k])
    /\ ~IsPercentLine(fedLines[k])
    => FrameOfLine(k)

\* the sequence-position lines among the first k lines
PlaylistLinesUpTo(k) == {m \in 1..k : IsPlaylistLine(fedLines[m])}
\* N and M of the sequence-position line 'N of M'
PositionOf(line) == parseInt(SeqPosMatch(line)[1])
TotalOf(line) == parseInt(SeqPosMatch(line)[2])
CarriesPosition(e) == e.videoIndex # <<>> \/ e.videoTotal # <<>>
\* the events of the k-th line agree with the sequence position in force
PositionInForce(k) ==
  LET seen == PlaylistLinesUpTo(k)
      last == fedLines[SetMax(seen)]
  IN  \A n \in 1..Len(LineEvents(k)) :
        LET e == LineEvents(k)[n]
        IN  /\ (seen # {} /\ TotalOf(last) > 0) =>
                 e.videoIndex = <<PositionOf(last)>> /\ e.videoTotal = <<TotalOf(last)>>
            /\ (\A m \in seen : TotalOf(fedLines[m]) = 0) => ~CarriesPosition(e)
\* the events of 'close'
CloseEvents ==
  IF FeedClosed
  THEN SubSeq(fedStates[Len(fedStates)].events,
              Len(FedBefore(Len(fedStates)).events) + 1,
              Len(fedStates[Len(fedStates)].events))
  ELSE <<>>

\* C38: once a sequence-position line 'N of M' with M > 0 has been
\* processed, every later non-terminal event carries videoIndex N and
\* videoTotal M, until the next sequence-position line; before any such line
\* no event carries videoIndex or videoTotal; the terminal event never
\* carries them.
C38_PositionCarried ==
  /\ \A k \in 1..Len(fedLines) : PositionInForce(k)
  /\ \A n \in 1..Len(CloseEvents) : ~CarriesPosition(CloseEvents[n])
\* the same on the runs whose sequence-position lines all have a positive total
T38_PositiveTotals ==
  (\A m \in PlaylistLinesUpTo(Len(fedLines)) : TotalOf(fedLines[m]) > 0)
    => C38_PositionCarried

\* how often the summarize job has called the collaborator of that name
CallCount(name) == Cardinality({n \in 1..Len(calls) : calls[n] = name})

\* C31: a summarize job calls summarizeWithVertexAI at most once and the
\* model behind it at most once; when that call has failed the job is not
\* retried: no 'completed' event is enqueued and (the subscriber still
\* listening) an 'error' terminal event is.
C31_SummarizedOnce ==
  kind = "summarize" =>
    /\ CallCount("summarizeWithVertexAI") <= 1
    /\ CallCount("generateContent") <= 1
    /\ summaryOutcome = "threw" => EndedInError
\* generateContent was called once, threw, and the subscriber got the error
C31_Witness ==
  /\ kind = "summarize"
  /\ summaryOutcome = "threw"
  /\ calls = <<"summarizeWithVertexAI", "accessSecretVersion", "generateContent">>
  /\ stream = "closed"
  /\ events[Len(events)].status = "error"

NonTerminal(e) == ~IsTerminal(e)
\* the non-terminal events of the job, in order
ProgressEvents == SelectSeq(events, NonTerminal)
\* the events 'Completed clip I/N' among the first n events
ClipsFinishedBy(n) ==
  Cardinality({m \in 1..n : events[m].status = "Completed clip I/N: name"})

\* C33: in a clip job with n >= 1 clips the progress of the non-terminal
\* events never decreases; after 'Uploading video...' and 'Processing
\* clips...' they come in pairs, clip by clip: the event at the start of clip
\* i has progress 20 + floor((i + 0.5) / n * 70) and the one at its end
\* 20 + floor((i + 1) / n * 70), both within 20..90; 'completed' is
\* enqueued at most once and only after the end event of the last clip.
C33_ClipProgressSlices ==
  (kind = "clip" /\ Len(clips) >= 1) =>
    LET n  == Len(clips)
        nt == ProgressEvents
    IN  /\ \A p \in 1..(Len(nt) - 1) : nt[p].progress <= nt[p + 1].progress
        /\ \A p \in 3..Len(nt) :
             LET idx == (p - 3) \div 2
             IN  /\ idx < n
                 /\ nt[p].progress >= Pct(20) /\ nt[p].progress <= Pct(90)
                 /\ IF (p - 3) % 2 = 0
                    THEN /\ nt[p].status = "Extracting clip I/N: name"
                         /\ nt[p].progress = Pct(20 + (70 * idx + 35) \div n)
                    ELSE /\ nt[p].status = "Completed clip I/N: name"
                         /\ nt[p].progress = Pct(20 + (70 * (idx + 1)) \div n)
        /\ Cardinality({m \in 1..Len(events) : events[m].status = "completed"}) <= 1
        /\ \A m \in 1..Len(events) :
             events[m].status = "completed" => ClipsFinishedBy(m) = n
\* both clips of a job of two were extracted and 'completed' was enqueued
C33_Witness ==
  /\ kind = "clip"
  /\ Len(clips) = 2
  /\ Len(ProgressEvents) = 6
  /\ events[Len(events)].status = "completed"

\* 'completed' of a clip job: every requested clip had its one ffmpeg
\* process, each process exited with 0 and left its path, and the event
\* counts as many saved clips as were requested
CompletedClipsAll ==
  \A m \in 1..Len(events) :
    events[m].status = "completed" =>
      /\ procs = Len(clips)
      /\ alive = 0
      /\ outputPaths = clips
      /\ Len(clips) > 0 => exitCode = <<0>>
      /\ events[m].details = <<Part("N clip(s) saved to: ", <<Len(clips)>>)>>
\* a step in which the ffmpeg process the loop awaits fails: its 'close'
\* carries a status other than 0, or its 'error' fires
ClipFails ==
  /\ pc = "awaitFfmpeg"
  /\ \/ exitCode' # <<0>> /\ (alive' < alive \/ procs' > procs)
     \/ ~errorEmitted /\ errorEmitted'
\* the loop is left: no further process, no 'completed', the 'error' event
ClipAborts ==
  /\ procs' = procs
  /\ i' = i
  /\ pc' \in {"done", "thrown"}
  /\ \A m \in 1..Len(events') : events'[m].status # "completed"
  /\ (stream = "readable" /\ ~isClosed) =>
       /\ Len(events') = Len(events) + 1
       /\ events'[Len(events')].status = "error"

\* C39: a clip job that enqueued 'completed' spawned exactly one ffmpeg
\* process per requested clip, each exited with 0, and the event counts as
\* many saved clips as were requested; when a clip fails no further clip is
\* attempted, then or later, no 'completed' is enqueued and (the subscriber
\* still listening) the terminal event is 'error'.
C39_ClipsAllOrNothing ==
  /\ [](kind = "clip" => CompletedClipsAll)
  /\ [][(kind = "clip" /\ ClipFails) => ClipAborts]_vars
  /\ [][(kind = "clip" /\ pc \in {"done", "thrown"}) => procs' = procs]_vars
\* two clips were requested and 'completed' counts two saved clips
C39_Witness ==
  /\ kind = "clip"
  /\ Len(clips) = 2
  /\ procs = 2
  /\ events[Len(events)].status = "completed"
  /\ events[Len(events)].details[1].text = <<2>>
\* the first of two clips failed and the job ended with the 'error' event
T39_FailedFirst ==
  /\ kind = "clip"
  /\ Len(clips) = 2
  /\ procs = 1
  /\ exitCode = <<1>>
  /\ pc = "done"
  /\ events[Len(events)].status = "error"

\* the progress of the four steps of a summarize job
SummarizeSteps == <<Pct(10), Pct(30), Pct(50), Pct(70)>>
\* the non-terminal events among the first n events
StepsBy(n) == Cardinality({m \in 1..n : ~IsTerminal(events[m])})

\* C40: the non-terminal events of a summarize job are the first events of
\* the sequence with progress 10, 30, 50, 70, each at most once and in that
\* order, and none follows a terminal event; 'completed' is enqueued only
\* after all four, 'error' only after at least the first.
C40_SummarizeSteps ==
  kind = "summarize" =>
    /\ Len(ProgressEvents) <= 4
    /\ \A p \in 1..Len(ProgressEvents) : ProgressEvents[p].progress = SummarizeSteps[p]
    /\ \A m \in 1..Len(events) :
         /\ events[m].status = "completed" => StepsBy(m) = 4
         /\ events[m].status = "error" => StepsBy(m) >= 1
         /\ IsTerminal(events[m]) => StepsBy(Len(events)) = StepsBy(m)
\* the four steps were announced and 'completed' followed
C40_Witness ==
  /\ kind = "summarize"
  /\ Len(ProgressEvents) = 4
  /\ events[Len(events)].status = "completed"
\* an 'error' event right after the first n steps
ErrorAfterSteps(n) ==
  /\ kind = "summarize"
  /\ Len(events) = n + 1
  /\ Len(ProgressEvents) = n
  /\ events[n + 1].status = "error"
T40_ErrorAfterOne == ErrorAfterSteps(1)
T40_ErrorAfterTwo == ErrorAfterSteps(2)
T40_ErrorAfterThree == ErrorAfterSteps(3)
T40_ErrorAfterFour == ErrorAfterSteps(4)

\* the lines of the document that are timestamp-range lines
TimingLines ==
  LET lines == split(content, NL)
  IN  {n \in 1..Len(lines) : TimestampMatch(trim(lines[n])) # <<>>}
\* the document from its first timestamp-range line on
FromFirstTiming ==
  LET lines == split(content, NL)
  IN  Join(SubSeq(lines, SetMin(TimingLines), Len(lines)), NL)
\* hours * 3600 + minutes * 60 + seconds of a time field 'HH:MM:SS'
SecondsOfTime(time) ==
  parseInt(SubSeq(time, 1, 2)) * 3600 + parseInt(SubSeq(time, 4, 5)) * 60
    + parseInt(SubSeq(time, 7, 8))

\* C36: parseSubtitlesWithTimestamps returns no segment for a document
\* without a timestamp-range line, and otherwise the segments of the document
\* that starts at the first such line: the text lines before it give no
\* segment.  No segment has an empty text, and the timestamp of every segment
\* is hours * 3600 + minutes * 60 + seconds of its own time field 'HH:MM:SS'.
C36_SegmentsTimedAndNonEmpty ==
  parsed =>
    /\ \A n \in 1..Len(segments) :
         /\ segments[n].text # <<>>
         /\ Len(segments[n].time) = 8
         /\ segments[n].timestamp = SecondsOfTime(segments[n].time)
    /\ IF TimingLines = {} THEN segments = <<>>
       ELSE segments = parseSubtitlesWithTimestamps(FromFirstTiming)
\* 'hello' before the first timestamp-range line gave nothing, 'hello' after
\* the line of 00:01:05 gave the one segment, at 65 seconds
C36_Witness ==
  /\ parsed
  /\ content = Join(<<LineHello, LineTimingLater, LineHello>>, NL)
  /\ Len(segments) = 1
  /\ segments[1].timestamp = 65
  /\ segments[1].text = LineHello

\* C37: no chapter marker that extractTopicsFromSummary returns has an
\* offset greater than the offset of the last segment of the transcript: a
\* chapter bullet whose time lies beyond it is rejected.
C37_MarkersWithinTranscript ==
  extracted =>
    \A n \in 1..Len(topics) : topics[n].timestamp <= LastOffset
\* the same for the sections of the fallback path
T37_SectionsWithinTranscript ==
  (extracted /\ ChapterLines = {}) =>
    \A n \in 1..Len(topics) : topics[n].timestamp <= LastOffset

\* a well-formed chapter bullet at 330 s kept for a transcript that ends at 0 s
T37_KeptBeyondEnd ==
  /\ extracted
  /\ summaryText = LineChapter
  /\ LastOffset = 0
  /\ Len(topics) = 1
  /\ topics[1].timestamp = 330

====
